---------------------------- MODULE Spec2Model ----------------------------
(***************************************************************************)
(* Janus: reverse proxy with a hot-swappable configuration.                *)
(*                                                                         *)
(* The model follows janus-server (main.rs, management.rs, reload.rs,      *)
(* server.rs, proxy.rs) and janus-common (config.rs).  Strings that the    *)
(* code inspects character by character (request paths, route patterns,    *)
(* static prefixes) are sequences of one-character strings.                *)
(***************************************************************************)
EXTENDS Integers, Sequences, FiniteSets, TLC

VARIABLES
    config,     \* AppState.config: the JanusConfig inside the RwLock
    file,       \* content of the file at AppState.config_path
    client,     \* the management connection: command in progress and last reply
    watcher,    \* the watch_config task
    fails,      \* number of failed file writes so far
    edits,      \* number of outside edits of the configuration file so far
    budget,     \* control-plane commands still allowed (negative: no limit)
    req,        \* the HTTP request being handled (handle_request, ProxyHandler)
    disk,       \* what the file system holds under each static root
    rw,         \* the RwLock around the configuration: its holders
    wr,         \* a task inside a write section
    rd,         \* the tasks inside read sections
    stable,     \* the configuration as the last write section left it
    conns,      \* HTTP connections served side by side, one request each
    log,        \* the dispatches decided so far, in the order of selection
    clock,      \* time since the watcher started, in tenths of a second
    chan,       \* the watcher's channel: arrival times of the queued events
    wt,         \* the watch_config loop: position, last_reload, wake-up time
    rlog,       \* the reloads the watcher has run, oldest first
    inbox,      \* frames the management peer has sent and the server not yet read
    outbox,     \* frames the server has sent on the management connection
    link,       \* the management connection: open or closed, and what was sent
    stats,      \* AppState.stats: the counters behind their RwLock
    tasks,      \* the HTTP requests being handled, one per connection
    served,     \* the status of every request that has ended, oldest first
    proc,       \* the process: the shutdown signal, the three tasks, the runtime
    probe,      \* arguments and result of a function applied on its own
    trip,       \* the backend round trips of ProxyHandler::forward under way
    mt,         \* the management connections and the watcher's reload, side by side
    th,         \* tasks at the grain of their lock operations
    locks       \* the RwLocks of AppState.config and AppState.stats with their queues

lockVars == <<rw, wr, rd, stable>>

lbVars == <<conns, log>>

watchVars == <<clock, chan, wt, rlog>>

connVars == <<inbox, outbox, link>>

vars == <<config, file, client, watcher, fails, edits, budget, req, disk,
          rw, wr, rd, stable, conns, log, clock, chan, wt, rlog,
          inbox, outbox, link, stats, tasks, served, proc, probe, trip,
          mt, th, locks>>

statVars == <<stats, tasks, served>>

taskVars == <<mt, th, locks>>

(***************************************************************************)
(* Bounds of the model.                                                    *)
(***************************************************************************)
MaxSaveFailures == 1
MaxEdits == 1
\* control-plane commands that run beside the HTTP requests of SpecReq
MaxWrites == 1

(***************************************************************************)
(* String helpers (str::starts_with, ends_with, trim_end_matches,          *)
(* strip_prefix) on sequences of characters.                               *)
(***************************************************************************)
StartsWith(s, p) == Len(p) <= Len(s) /\ SubSeq(s, 1, Len(p)) = p

EndsWith(s, p) == Len(p) <= Len(s) /\ SubSeq(s, Len(s) - Len(p) + 1, Len(s)) = p

RECURSIVE TrimEndMatches(_, _)
TrimEndMatches(s, p) ==
    IF Len(p) > 0 /\ EndsWith(s, p)
    THEN TrimEndMatches(SubSeq(s, 1, Len(s) - Len(p)), p)
    ELSE s

\* path.strip_prefix(p).unwrap_or(path)
StripPrefixOr(s, p) ==
    IF StartsWith(s, p) THEN SubSeq(s, Len(p) + 1, Len(s)) ELSE s

(***************************************************************************)
(* Configuration values.                                                   *)
(***************************************************************************)
default_port == 8080
default_management_port == 9090

Backend(a, b) == [address |-> a, backup |-> b]

PoolAB == [servers |-> <<Backend("A", FALSE), Backend("B", FALSE)>>,
           load_balancing |-> "RoundRobin"]
PoolEmpty == [servers |-> <<>>, load_balancing |-> "RoundRobin"]

Pools == {PoolAB, PoolEmpty}

UpNames == {"a", "b"}

PApi == <<"/", "a", "/", "*">>
PApiV == <<"/", "a", "/", "v", "/", "*">>
PHealth == <<"/", "h">>

RouteApi == [path |-> PApi, methods |-> <<>>, upstream |-> "a"]
RouteApiV == [path |-> PApiV, methods |-> <<"get">>, upstream |-> "b"]

RouteInputs == {RouteApi, RouteApiV}
PathInputs == {PApi, PApiV, PHealth}

StaticA == [path |-> <<"/", "s">>, root |-> "r1", directory_listing |-> FALSE]
StaticRoot == [path |-> <<"/">>, root |-> "r2", directory_listing |-> TRUE]

\* JanusConfig::default()
DefaultConfig ==
    [server |-> [port |-> default_port],
     management |-> [enabled |-> TRUE, port |-> default_management_port],
     upstreams |-> [n \in {} |-> [servers |-> <<>>, load_balancing |-> "RoundRobin"]],
     routes |-> <<>>,
     static_files |-> <<>>]

Cfg(port, men, mport, ups, rts, st) ==
    [server |-> [port |-> port],
     management |-> [enabled |-> men, port |-> mport],
     upstreams |-> ups, routes |-> rts, static_files |-> st]

\* HashMap<String, UpstreamConfig>: a function on the set of its keys
NoUpstreams == [n \in {} |-> PoolEmpty]
UpA == [n \in {"a"} |-> PoolAB]
UpAB == [n \in {"a", "b"} |-> PoolAB]
UpAEmpty == [n \in {"a"} |-> PoolEmpty]

CandOk == Cfg(8080, TRUE, 9090, UpAB, <<RouteApi>>, <<StaticA>>)
CandOverlap == Cfg(8080, TRUE, 9090, UpAB, <<RouteApi, RouteApiV>>, <<StaticA>>)
CandPort0 == Cfg(0, TRUE, 9090, UpAB, <<RouteApi>>, <<StaticA>>)
CandMgmt0 == Cfg(8080, TRUE, 0, UpAB, <<RouteApi>>, <<StaticA>>)
CandDangling == Cfg(8080, TRUE, 9090, UpA, <<RouteApiV, RouteApi>>, <<StaticA>>)
CandEmptyPool == Cfg(8080, TRUE, 9090, UpAEmpty, <<RouteApi>>, <<StaticA>>)

CandStatics ==
    Cfg(8080, TRUE, 9090, UpAB, <<RouteApi, RouteApiV>>, <<StaticA, StaticRoot>>)

\* the configurations a client sends with UpdateConfig
Candidates ==
    {CandOk, CandOverlap, CandPort0, CandMgmt0, CandDangling, CandEmptyPool}

ContainsKey(ups, n) == n \in DOMAIN ups

\* an insert that keeps the entry of a key already present
MapInsertIfAbsent(ups, n, p) ==
    [k \in (DOMAIN ups) \cup {n} |-> IF k \in DOMAIN ups THEN ups[k] ELSE p]

\* HashMap::insert
MapInsert(ups, n, p) ==
    [k \in (DOMAIN ups) \cup {n} |-> IF k = n THEN p ELSE ups[k]]

\* HashMap::remove
MapRemove(ups, n) == [k \in (DOMAIN ups) \ {n} |-> ups[k]]

(***************************************************************************)
(* The configuration file.  A TOML document may omit sections and fields;  *)
(* serde fills the defaults on load, and save writes every field.          *)
(***************************************************************************)
Omitted == -1

Doc(port, men, mport, ups, rts, st) ==
    [server_port |-> port, management_enabled |-> men,
     management_port |-> mport,
     upstreams |-> ups, routes |-> rts, static_files |-> st]

\* toml::to_string_pretty(self)
to_toml(c) ==
    Doc(c.server.port,
        IF c.management.enabled THEN "true" ELSE "false",
        c.management.port, c.upstreams, c.routes, c.static_files)

\* JanusConfig::from_toml on a document that parses
from_toml(d) ==
    Cfg(IF d.server_port = Omitted THEN default_port ELSE d.server_port,
        IF d.management_enabled = "omitted" THEN TRUE
        ELSE d.management_enabled = "true",
        IF d.management_port = Omitted THEN default_management_port
        ELSE d.management_port,
        d.upstreams, d.routes, d.static_files)

TomlFile(d) == [kind |-> "toml", doc |-> d]
GarbageFile == [kind |-> "garbage", doc |-> to_toml(DefaultConfig)]
MissingFile == [kind |-> "missing", doc |-> to_toml(DefaultConfig)]

DocSparse == Doc(Omitted, "omitted", Omitted, UpA, <<RouteApi>>, <<StaticA>>)

\* what an editor may leave in the file
EditedFiles ==
    {TomlFile(to_toml(c)) : c \in {CandOverlap, CandPort0, CandEmptyPool}}
        \cup {TomlFile(DocSparse), GarbageFile, MissingFile}

\* JanusConfig::load: Ok(config) or Err(ConfigError)
load(f) ==
    IF f.kind = "missing" THEN [ok |-> FALSE, err |-> "IO error", config |-> DefaultConfig]
    ELSE IF f.kind = "garbage" THEN [ok |-> FALSE, err |-> "Parse error", config |-> DefaultConfig]
    ELSE [ok |-> TRUE, err |-> "", config |-> from_toml(f.doc)]

\* JanusConfig::save: the outcomes of serialising and writing the file.
\* A write that fails (serialisation error, file not writable) leaves the
\* old content.
SaveOutcomes(c, f) ==
    {[ok |-> TRUE, file |-> TomlFile(to_toml(c))]}
        \cup (IF fails < MaxSaveFailures THEN {[ok |-> FALSE, file |-> f]} ELSE {})


(***************************************************************************)
(* Validation.  "" stands for Ok(()), any other string for the error.      *)
(***************************************************************************)
DanglingRoute(c) ==
    \E i \in 1..Len(c.routes) : ~ContainsKey(c.upstreams, c.routes[i].upstream)

EmptyPool(c) ==
    \E n \in DOMAIN c.upstreams : c.upstreams[n].servers = <<>>

\* reload.rs validate_config
validate_config(c) ==
    IF c.server.port = 0 THEN "Server port cannot be 0"
    ELSE IF c.management.enabled /\ c.management.port = 0
         THEN "Management port cannot be 0"
    ELSE IF DanglingRoute(c) THEN "Route references non-existent upstream"
    ELSE IF EmptyPool(c) THEN "Upstream has no servers configured"
    ELSE ""

\* the checks of management.rs validate_and_update_config
update_config_check(c) ==
    IF DanglingRoute(c) THEN "Route references non-existent upstream" ELSE ""

(***************************************************************************)
(* The management connection.  handle_connection answers one message at a  *)
(* time; client holds the command being handled and the last reply.        *)
(***************************************************************************)
Reply(cmd, kind, msg, saved, body) ==
    [pc |-> "idle", cmd |-> cmd, new_config |-> DefaultConfig,
     reply |-> kind, msg |-> msg, saved |-> saved, body |-> body]

\* a handler that answered without leaving its arm
Answer(cmd, kind, msg, saved) == Reply(cmd, kind, msg, saved, DefaultConfig)

Fresh(cmd, c) ==
    [pc |-> "idle", cmd |-> cmd, new_config |-> c,
     reply |-> "None", msg |-> "", saved |-> "none", body |-> DefaultConfig]

\* config.save(&state.config_path) inside a handler, and the reply that
\* follows it
SaveAndReply(cmd, c, okmsg) ==
    \E o \in SaveOutcomes(c, file) :
        /\ file' = o.file
        /\ fails' = IF o.ok THEN fails ELSE fails + 1
        /\ client' = IF o.ok THEN Answer(cmd, "Success", okmsg, "ok")
                     ELSE Answer(cmd, "Error", "Failed to save config", "failed")

\* ClientMessage::GetConfig
GetConfig ==
    /\ client.pc = "idle"
    /\ client' = Reply("GetConfig", "Config", "", "none", config)
    /\ UNCHANGED <<config, file, watcher, fails, edits>>

\* a push that puts the new route in front of the others
PushRouteFront(c, route) == [c EXCEPT !.routes = <<route>> \o @]

\* config.routes.push(route)
PushRoute(c, route) == [c EXCEPT !.routes = Append(@, route)]

\* an AddRoute that writes the file before it adds the route
AddRouteSavesFirst(route) ==
    /\ client.pc = "idle"
    /\ IF ~ContainsKey(config.upstreams, route.upstream)
       THEN /\ client' = Answer("AddRoute", "Error", "Upstream not found", "none")
            /\ UNCHANGED <<config, file, fails>>
       ELSE IF \E i \in 1..Len(config.routes) : config.routes[i].path = route.path
       THEN /\ client' = Answer("AddRoute", "Error", "Route already exists", "none")
            /\ UNCHANGED <<config, file, fails>>
       ELSE /\ SaveAndReply("AddRoute", config, "Route added")
            /\ config' = [config EXCEPT !.routes = Append(@, route)]
    /\ UNCHANGED <<watcher, edits>>

\* ClientMessage::AddRoute, under the write lock from start to end
AddRoute(route) ==
    /\ client.pc = "idle"
    /\ IF ~ContainsKey(config.upstreams, route.upstream)
       THEN /\ client' = Answer("AddRoute", "Error", "Upstream not found", "none")
            /\ UNCHANGED <<config, file, fails>>
       ELSE IF \E i \in 1..Len(config.routes) : config.routes[i].path = route.path
       THEN /\ client' = Answer("AddRoute", "Error", "Route already exists", "none")
            /\ UNCHANGED <<config, file, fails>>
       ELSE /\ config' = PushRoute(config, route)
            /\ SaveAndReply("AddRoute", config', "Route added")
    /\ UNCHANGED <<watcher, edits>>

\* a removal that stops at the first route with the path
RetainRoutesDropsFirst(c, path) ==
    LET M == {i \in 1..Len(c.routes) : c.routes[i].path = path}
        f == IF M = {} THEN 0 ELSE CHOOSE i \in M : \A j \in M : i <= j
    IN  [c EXCEPT !.routes =
            [k \in 1..(Len(@) - (IF f = 0 THEN 0 ELSE 1)) |->
                IF f = 0 \/ k < f THEN @[k] ELSE @[k + 1]]]

\* config.routes.retain(|r| r.path != path)
RetainRoutes(c, path) ==
    LET Keep(r) == r.path # path
    IN  [c EXCEPT !.routes = SelectSeq(@, Keep)]

\* ClientMessage::RemoveRoute
RemoveRoute(path) ==
    /\ client.pc = "idle"
    /\ config' = RetainRoutes(config, path)
    /\ IF Len(config'.routes) = Len(config.routes)
       THEN /\ client' = Answer("RemoveRoute", "Error", "Route not found", "none")
            /\ UNCHANGED <<file, fails>>
       ELSE SaveAndReply("RemoveRoute", config', "Route removed")
    /\ UNCHANGED <<watcher, edits>>

\* config.upstreams.insert(name, upstream_config)
InsertUpstream(c, name, pool) ==
    [c EXCEPT !.upstreams = MapInsert(@, name, pool)]

\* ClientMessage::UpdateUpstream
UpdateUpstream(name, pool) ==
    /\ client.pc = "idle"
    /\ config' = InsertUpstream(config, name, pool)
    /\ SaveAndReply("UpdateUpstream", config', "Upstream updated")
    /\ UNCHANGED <<watcher, edits>>

\* a guard that looks at the first route only
InUseFirstRoute(c, name) == Len(c.routes) > 0 /\ c.routes[1].upstream = name

\* the guard of RemoveUpstream: config.routes.iter().any(|r| r.upstream == name)
InUse(c, name) == \E i \in 1..Len(c.routes) : c.routes[i].upstream = name

\* ClientMessage::RemoveUpstream
RemoveUpstream(name) ==
    /\ client.pc = "idle"
    /\ IF InUse(config, name)
       THEN /\ client' = Answer("RemoveUpstream", "Error", "Upstream still in use", "none")
            /\ UNCHANGED <<config, file, fails>>
       ELSE IF ~ContainsKey(config.upstreams, name)
       THEN /\ client' = Answer("RemoveUpstream", "Error", "Upstream not found", "none")
            /\ UNCHANGED <<config, file, fails>>
       ELSE /\ config' = [config EXCEPT !.upstreams = MapRemove(@, name)]
            /\ SaveAndReply("RemoveUpstream", config', "Upstream removed")
    /\ UNCHANGED <<watcher, edits>>

\* ClientMessage::UpdateConfig, first half: validate_and_update_config
\* checks the candidate and replaces the configuration under the write lock
UpdateConfigSwap(c) ==
    /\ client.pc = "idle"
    /\ IF update_config_check(c) # ""
       THEN /\ client' = [Fresh("UpdateConfig", c) EXCEPT
                             !.reply = "Error", !.msg = update_config_check(c)]
            /\ UNCHANGED config
       ELSE /\ config' = c
            /\ client' = [Fresh("UpdateConfig", c) EXCEPT !.pc = "save"]
    /\ UNCHANGED <<file, watcher, fails, edits>>

\* ClientMessage::UpdateConfig, second half: the handler takes the read lock
\* and saves the configuration it finds there
UpdateConfigSave ==
    /\ client.pc = "save"
    /\ SaveAndReply("UpdateConfig", config, "Configuration updated")
    /\ UNCHANGED <<config, watcher, edits>>

(***************************************************************************)
(* reload_config: load, validate, then *config = new_config under the      *)
(* write lock.  Nothing of the configuration is written before the file    *)
(* has loaded and passed validate_config.                                  *)
(***************************************************************************)
\* a check that takes every file that parses
ReloadCheckParsesOnly(f) ==
    LET l == load(f)
    IN  IF ~l.ok THEN [err |-> l.err, config |-> DefaultConfig]
        ELSE [err |-> "", config |-> l.config]

\* JanusConfig::load(&state.config_path)? ; validate_config(&new_config)?
ReloadCheck(f) ==
    LET l == load(f)
    IN  IF ~l.ok THEN [err |-> l.err, config |-> DefaultConfig]
        ELSE [err |-> validate_config(l.config), config |-> l.config]

\* a reload that stores what it loaded before it validates
reload_configSwapsFirst(f, c) ==
    LET l == load(f)
    IN  IF ~l.ok THEN [err |-> l.err, config |-> c]
        ELSE [err |-> validate_config(l.config), config |-> l.config]

\* reload.rs reload_config: Ok(()) is "", and then the configuration is the
\* loaded one
reload_config(f, c) ==
    LET r == ReloadCheck(f)
    IN  IF r.err # "" THEN [err |-> r.err, config |-> c]
        ELSE [err |-> "", config |-> r.config]

\* ClientMessage::ReloadConfig
ReloadConfig ==
    /\ client.pc = "idle"
    /\ LET r == reload_config(file, config)
       IN  /\ config' = r.config
           /\ client' = IF r.err # ""
                        THEN Answer("ReloadConfig", "Error", r.err, "none")
                        ELSE Answer("ReloadConfig", "Success",
                                    "Configuration reloaded from file", "none")
    /\ UNCHANGED <<file, watcher, fails, edits>>

\* watch_config: an event for the watched directory, past the debounce
\* window, runs reload_config; a failure is logged and the loop goes on
WatcherReload ==
    /\ watcher.pc = "idle"
    /\ LET r == reload_config(file, config)
       IN  /\ config' = r.config
           /\ watcher' = [pc |-> "idle"]
    /\ UNCHANGED <<file, client, fails, edits>>

\* an editor, or anything else outside the server, rewrites or removes the file
EditFile(f) ==
    /\ edits < MaxEdits
    /\ f # file
    /\ file' = f
    /\ edits' = edits + 1
    /\ UNCHANGED <<config, client, watcher, fails>>

(***************************************************************************)
(* Startup (main): the file is loaded if it exists, else the defaults are  *)
(* used and written out; a file that does not load ends the process.       *)
(***************************************************************************)
Startup(files) ==
    /\ edits = 0
    /\ client = Fresh("None", DefaultConfig)
    /\ \E f \in files :
          IF f.kind = "toml"
          THEN /\ config = load(f).config
               /\ file = f
               /\ fails = 0
          ELSE /\ config = DefaultConfig
               /\ \/ file = TomlFile(to_toml(DefaultConfig)) /\ fails = 0
                  \/ file = MissingFile /\ fails = 1
    /\ watcher = [pc |-> IF file.kind = "missing" THEN "stopped" ELSE "idle"]

Budgeted ==
    /\ budget # 0
    /\ budget' = IF budget > 0 THEN budget - 1 ELSE budget

\* one step of the management connection, the watcher or the editor
Control ==
    \/ Budgeted /\ GetConfig
    \/ Budgeted /\ \E r \in RouteInputs : AddRoute(r)
    \/ Budgeted /\ \E p \in PathInputs : RemoveRoute(p)
    \/ Budgeted /\ \E n \in UpNames, p \in Pools : UpdateUpstream(n, p)
    \/ Budgeted /\ \E n \in UpNames : RemoveUpstream(n)
    \/ Budgeted /\ \E c \in Candidates : UpdateConfigSwap(c)
    \/ UpdateConfigSave /\ UNCHANGED budget
    \/ Budgeted /\ ReloadConfig
    \/ Budgeted /\ WatcherReload
    \/ Budgeted /\ \E f \in EditedFiles : EditFile(f)

(***************************************************************************)
(* The data plane: handle_request and ProxyHandler.                        *)
(***************************************************************************)
Methods == {"GET", "POST"}

PathAVX == <<"/", "a", "/", "v", "/", "x">>
PathAX == <<"/", "a", "/", "x">>
PathSX == <<"/", "s", "/", "x">>
PathM == <<"/", "m">>

ReqPaths == {PathAVX, PathAX, PathSX, PathM}

\* what the file system holds at root.join(file_path) of a static rule
Roots == {"r1", "r2"}
FsKinds == {"file", "dir", "none"}

NetOutcomes == {"ok", "refused", "timeout"}

NoRoute == [path |-> <<>>, methods |-> <<>>, upstream |-> ""]
NoPool == [servers |-> <<>>, load_balancing |-> "None"]
NoFs == [r \in Roots |-> "none"]

IdleReq ==
    [pc |-> "idle", method |-> "", path |-> <<>>,
     outcome |-> "none", rule |-> 0, route |-> NoRoute, upstream |-> NoPool,
     counter |-> 0, backend |-> "", status |-> 0]

\* the HTTP connections of the load-balancing specification
Conns == {"c1", "c2"}

IdleConn ==
    [pc |-> "idle", ip |-> "", route |-> NoRoute, upstream |-> NoPool,
     counter |-> 0, backend |-> ""]

NoConns ==
    /\ conns = [c \in Conns |-> IdleConn]
    /\ log = <<>>

\* a management connection just accepted: nothing sent either way
LinkIdle ==
    /\ inbox = <<>>
    /\ outbox = <<>>
    /\ link = [state |-> "open", frames |-> 0, texts |-> 0, bad |-> {},
               closing |-> FALSE]

\* Stats::default()
NoStats ==
    [total_requests |-> 0, bytes_received |-> 0, bytes_sent |-> 0,
     status_codes |-> [success |-> 0, redirect |-> 0,
                       client_error |-> 0, server_error |-> 0]]

\* no request has been counted
NoTraffic ==
    /\ stats = NoStats
    /\ tasks = [c \in Conns |-> "idle"]
    /\ served = <<>>

\* main after its three tokio::spawn calls: the watcher, the management
\* accept loop (when management is enabled) and the HTTP accept loop run
AllRunning ==
    proc = [signal |-> FALSE, cleanup |-> FALSE, runtime |-> "up",
            watcher |-> "running",
            mgmt |-> IF config.management.enabled THEN "running" ELSE "none",
            http |-> "running"]

NoProbe == probe = [op |-> "none"]

\* no round trip under way
IdleTrip == [pc |-> "idle", timeout |-> 0, waited |-> 0, status |-> 0]

NoTrip == trip = [c \in Conns |-> IdleTrip]

\* the tasks that change the configuration: the handlers of two management
\* connections and the reload of the watcher
Tasks == {"m1", "m2", "w"}

IdleTask ==
    [pc |-> "idle", cmd |-> "None", route |-> NoRoute, path |-> <<>>,
     name |-> "", pool |-> NoPool, new_config |-> DefaultConfig,
     cand |-> DefaultConfig, held |-> "none", reply |-> "None", count |-> 0]

\* the tasks that take the locks of AppState: two HTTP requests, a
\* management connection and the watcher
Threads == {"h1", "h2", "m", "w"}

IdleThread == [pc |-> 0, kind |-> "none", holds |-> <<>>, wait |-> ""]

\* tokio::sync::RwLock::new: no holder, nobody waiting
IdleLock == [writer |-> "", readers |-> {}, queue |-> <<>>]

\* no command under way, every lock free
NoTasks ==
    /\ mt = [t \in Tasks |-> IdleTask]
    /\ th = [t \in Threads |-> IdleThread]
    /\ locks = [config |-> IdleLock, stats |-> IdleLock]

\* str::to_uppercase on the method names in use
ToUpper(m) ==
    CASE m = "get" -> "GET"
      [] m = "post" -> "POST"
      [] OTHER -> m

\* server.rs matches_route
matches_route(path, pattern) ==
    IF EndsWith(pattern, <<"/", "*">>)
    THEN StartsWith(path, TrimEndMatches(pattern, <<"/", "*">>))
    ELSE IF EndsWith(pattern, <<"*">>)
    THEN StartsWith(path, TrimEndMatches(pattern, <<"*">>))
    ELSE path = pattern

\* a method check that admits every method
MethodAdmittedAlways(route, method) == TRUE

\* the method check of handle_request
MethodAdmitted(route, method) ==
    \/ route.methods = <<>>
    \/ \E k \in 1..Len(route.methods) : ToUpper(route.methods[k]) = ToUpper(method)

\* a static rule produces the response: the file is read, or the directory
\* is listed
Serves(rule, fs) ==
    \/ fs[rule.root] = "file"
    \/ fs[rule.root] = "dir" /\ rule.directory_listing

\* a scan in which the first rule whose prefix matches decides alone
StaticScanFirstPrefix(statics, path, fs, i) ==
    LET m == {k \in 1..Len(statics) : k >= i /\ StartsWith(path, statics[k].path)}
        f == IF m = {} THEN 0 ELSE CHOOSE k \in m : \A j \in m : k <= j
    IN  IF f > 0 /\ Serves(statics[f], fs) THEN f ELSE 0

\* the loop over config.static_files from rule i on: the rule that answers,
\* 0 when the loop falls through to the proxy routes
RECURSIVE StaticScan(_, _, _, _)
StaticScan(statics, path, fs, i) ==
    IF i > Len(statics) THEN 0
    ELSE IF StartsWith(path, statics[i].path) /\ Serves(statics[i], fs) THEN i
    ELSE StaticScan(statics, path, fs, i + 1)

\* the loop over config.routes from route i on: the route that is proxied,
\* 0 when the loop ends with no route
RECURSIVE RouteScan(_, _, _, _)
RouteScan(c, method, path, i) ==
    IF i > Len(c.routes) THEN 0
    ELSE IF /\ matches_route(path, c.routes[i].path)
            /\ MethodAdmitted(c.routes[i], method)
            /\ ContainsKey(c.upstreams, c.routes[i].upstream)
         THEN i
    ELSE RouteScan(c, method, path, i + 1)

\* handle_request up to drop(config): everything it does under the read
\* lock, on the configuration it finds there
HandleRequest(method, path) ==
    /\ req.pc \in {"idle", "done"}
    /\ LET s == StaticScan(config.static_files, path, disk, 1)
           r == RouteScan(config, method, path, 1)
           base == [IdleReq EXCEPT !.method = method, !.path = path]
       IN  req' = IF s > 0
                  THEN [base EXCEPT !.pc = "done", !.outcome = "static",
                                    !.rule = s, !.status = 200]
                  ELSE IF r > 0
                  THEN [base EXCEPT !.pc = "forward", !.outcome = "proxy",
                                    !.route = config.routes[r],
                                    !.upstream = config.upstreams[config.routes[r].upstream]]
                  ELSE [base EXCEPT !.pc = "done", !.outcome = "notfound",
                                    !.status = 404]
    /\ UNCHANGED <<config, file, client, watcher, fails, edits, budget, disk>>

Primaries(pool) == SelectSeq(pool.servers, LAMBDA b : ~b.backup)
Backups(pool) == SelectSeq(pool.servers, LAMBDA b : b.backup)

\* a selection that takes backup servers for primaries
select_backendAnyServer(pool, counter) ==
    IF pool.servers = <<>> THEN {""}
    ELSE {pool.servers[(counter % Len(pool.servers)) + 1].address}

\* ProxyHandler::select_backend: the addresses it may return, "" for Err
select_backend(pool, counter) ==
    IF Primaries(pool) = <<>>
    THEN IF Backups(pool) = <<>> THEN {""} ELSE {Backups(pool)[1].address}
    ELSE IF pool.load_balancing = "Random"
         THEN {Primaries(pool)[k].address : k \in 1..Len(Primaries(pool))}
         ELSE {Primaries(pool)[(counter % Len(Primaries(pool))) + 1].address}

\* a forward that reports a timeout like any other failure of the backend
ForwardStatusNoTimeout(net) ==
    CASE net = "ok" -> 200
      [] net = "refused" -> 502
      [] net = "timeout" -> 502

\* the status the client gets for a backend round trip
ForwardStatus(net) ==
    CASE net = "ok" -> 200
      [] net = "refused" -> 502
      [] net = "timeout" -> 504

\* ProxyHandler::forward on the pool and route the handler was built from
ForwardFrom(pool, net) ==
    \E b \in select_backend(pool, req.counter) :
        req' = [req EXCEPT !.pc = "done",
                           !.upstream = pool,
                           !.backend = b,
                           !.counter = IF Primaries(pool) = <<>> THEN @ ELSE @ + 1,
                           !.status = IF b = "" THEN 502 ELSE ForwardStatus(net)]

\* a forward that looks the pool up again in the configuration of the moment
ForwardRereads(net) ==
    /\ req.pc = "forward"
    /\ ForwardFrom(IF ContainsKey(config.upstreams, req.route.upstream)
                   THEN config.upstreams[req.route.upstream]
                   ELSE NoPool, net)
    /\ UNCHANGED <<config, file, client, watcher, fails, edits, budget, disk>>

\* proxy.forward(req, remote_addr) and the response of handle_request
Forward(net) ==
    /\ req.pc = "forward"
    /\ ForwardFrom(req.upstream, net)
    /\ UNCHANGED <<config, file, client, watcher, fails, edits, budget, disk>>

Requests ==
    \/ \E m \in Methods, p \in ReqPaths : HandleRequest(m, p)
    \/ \E net \in NetOutcomes : Forward(net)

(***************************************************************************)
(* watch_config with its clock: the events of the watched directory queue  *)
(* in a channel; the loop takes one event at a time, drops it inside the   *)
(* debounce window, and else sleeps and reloads.  Time is counted in       *)
(* tenths of a second.                                                     *)
(***************************************************************************)
MaxClock == 11
MaxEvents == 3

\* Duration::from_millis(500), in tenths of a second
debounce_duration == 5
\* the sleep before the reload, Duration::from_millis(100), in tenths
settle_delay == 1

\* the loop at rx.recv(), with last_reload taken when the watcher started
WatcherStart == [pc |-> "recv", last_reload |-> 0, wake |-> 0, cause |-> 0]

WatchIdle ==
    /\ clock = 0
    /\ chan = <<>>
    /\ wt = WatcherStart
    /\ rlog = <<>>

\* what the watched file may hold after a change
WatchFiles ==
    {TomlFile(to_toml(c)) : c \in {CandOverlap, CandPort0}}
        \cup {GarbageFile, MissingFile}

\* a tenth of a second passes
Tick ==
    /\ clock < MaxClock
    /\ clock' = clock + 1
    /\ UNCHANGED <<config, file, edits, chan, wt, rlog>>

\* the file is modified or created: the notify callback sends () into the
\* channel
FileEvent(f) ==
    /\ edits < MaxEvents
    /\ file' = f
    /\ edits' = edits + 1
    /\ chan' = Append(chan, clock)
    /\ UNCHANGED <<config, clock, wt, rlog>>

\* rx.recv() returns an event: inside the debounce window the loop
\* continues, else last_reload = now and the loop goes to sleep
WatcherRecv ==
    /\ wt.pc = "recv"
    /\ chan # <<>>
    /\ chan' = Tail(chan)
    /\ wt' = IF clock - wt.last_reload < debounce_duration
             THEN wt
             ELSE [pc |-> "sleep", last_reload |-> clock,
                   wake |-> clock + settle_delay, cause |-> Head(chan)]
    /\ UNCHANGED <<config, file, edits, clock, rlog>>

\* the sleep is over, not earlier than asked for: reload_config is called
WatcherWake ==
    /\ wt.pc = "sleep"
    /\ clock >= wt.wake
    /\ wt' = [wt EXCEPT !.pc = "reload"]
    /\ UNCHANGED <<config, file, edits, clock, chan, rlog>>

\* reload_config returns, after the file was read and the write lock was
\* granted; the result is logged and the loop is back at rx.recv()
WatcherReloaded ==
    /\ wt.pc = "reload"
    /\ LET r == reload_config(file, config)
       IN  /\ config' = r.config
           /\ rlog' = Append(rlog, [arrived |-> wt.cause,
                                    decided |-> wt.last_reload,
                                    ok |-> r.err = ""])
    /\ wt' = [wt EXCEPT !.pc = "recv"]
    /\ UNCHANGED <<file, edits, clock, chan>>

(***************************************************************************)
(* The RwLock of AppState.config at the grain of single fields.  A write   *)
(* section changes the JanusConfig in place, field after field; a read     *)
(* section reads the fields it needs one after the other.                  *)
(***************************************************************************)
Readers == {"r1", "r2"}

\* the fields of JanusConfig in declaration order
Fields == <<"server", "management", "upstreams", "routes", "static_files">>

\* the fields a read section reads, in the order the code reads them
ReadOrder(kind) ==
    CASE kind = "handle_request" -> <<"server", "static_files", "routes", "upstreams">>
      [] kind = "GetConfig" -> Fields
      [] kind = "GetStatus" -> <<"routes", "upstreams", "server">>

ReaderKinds == {"handle_request", "GetConfig", "GetStatus"}

IdleReader == [pc |-> "idle", kind |-> "GetConfig", next |-> 1,
               seen |-> DefaultConfig, snap |-> DefaultConfig]

IdleWriter == [pc |-> "idle", target |-> DefaultConfig, next |-> 1]

LockFree ==
    /\ rw = [writer |-> FALSE, readers |-> {}]
    /\ wr = IdleWriter
    /\ rd = [r \in Readers |-> IdleReader]
    /\ stable = DefaultConfig

\* what a write section makes of the configuration c it finds: the whole
\* replacement of UpdateConfig and reload_config, and the in-place changes
\* of AddRoute, RemoveRoute, UpdateUpstream and RemoveUpstream
WriteTargets(c) ==
    {CandOk, CandOverlap, CandStatics}
        \cup (IF /\ ContainsKey(c.upstreams, "b")
                 /\ \A i \in 1..Len(c.routes) : c.routes[i].path # PApiV
              THEN {PushRoute(c, RouteApiV)} ELSE {})
        \cup {RetainRoutes(c, PApiV)}
        \cup {InsertUpstream(c, "b", PoolEmpty)}
        \cup (IF ~InUse(c, "b") /\ ContainsKey(c.upstreams, "b")
              THEN {[c EXCEPT !.upstreams = MapRemove(@, "b")]} ELSE {})

\* a writer that does not wait for the read sections to end
WriteAcquireIgnoresReaders(target) ==
    /\ wr.pc = "idle"
    /\ ~rw.writer
    /\ rw' = [rw EXCEPT !.writer = TRUE]
    /\ wr' = [pc |-> "writing", target |-> target, next |-> 1]
    /\ UNCHANGED <<config, rd, stable>>

\* state.config.write().await
WriteAcquire(target) ==
    /\ wr.pc = "idle"
    /\ ~rw.writer
    /\ rw.readers = {}
    /\ rw' = [rw EXCEPT !.writer = TRUE]
    /\ wr' = [pc |-> "writing", target |-> target, next |-> 1]
    /\ UNCHANGED <<config, rd, stable>>

\* the write section stores one more field
WriteField ==
    /\ wr.pc = "writing"
    /\ wr.next <= Len(Fields)
    /\ config' = [config EXCEPT ![Fields[wr.next]] = wr.target[Fields[wr.next]]]
    /\ wr' = [wr EXCEPT !.next = @ + 1]
    /\ UNCHANGED <<rw, rd, stable>>

\* the write guard is dropped
WriteRelease ==
    /\ wr.pc = "writing"
    /\ wr.next > Len(Fields)
    /\ rw' = [rw EXCEPT !.writer = FALSE]
    /\ wr' = IdleWriter
    /\ stable' = config
    /\ UNCHANGED <<config, rd>>

\* state.config.read().await
ReadAcquire(r, kind) ==
    /\ rd[r].pc = "idle"
    /\ ~rw.writer
    /\ rw' = [rw EXCEPT !.readers = @ \cup {r}]
    /\ rd' = [rd EXCEPT ![r] = [pc |-> "reading", kind |-> kind, next |-> 1,
                                seen |-> DefaultConfig, snap |-> stable]]
    /\ UNCHANGED <<config, wr, stable>>

\* the read section reads one more field
ReadField(r) ==
    /\ rd[r].pc = "reading"
    /\ rd[r].next <= Len(ReadOrder(rd[r].kind))
    /\ LET f == ReadOrder(rd[r].kind)[rd[r].next]
       IN  rd' = [rd EXCEPT ![r].seen[f] = config[f], ![r].next = @ + 1]
    /\ UNCHANGED <<config, rw, wr, stable>>

\* the read guard is dropped
ReadRelease(r) ==
    /\ rd[r].pc = "reading"
    /\ rd[r].next > Len(ReadOrder(rd[r].kind))
    /\ rw' = [rw EXCEPT !.readers = @ \ {r}]
    /\ rd' = [rd EXCEPT ![r] = IdleReader]
    /\ UNCHANGED <<config, wr, stable>>

InitLock ==
    /\ Startup({TomlFile(to_toml(c)) : c \in {CandOk, CandOverlap}})
    /\ budget = 0
    /\ req = IdleReq
    /\ disk = NoFs
    /\ rw = [writer |-> FALSE, readers |-> {}]
    /\ wr = IdleWriter
    /\ rd = [r \in Readers |-> IdleReader]
    /\ stable = config
    /\ NoConns
    /\ WatchIdle
    /\ LinkIdle
    /\ NoTraffic
    /\ AllRunning
    /\ NoProbe
    /\ NoTrip
    /\ NoTasks

NextLock ==
    /\ UNCHANGED taskVars
    /\ \/ \E t \in WriteTargets(config) : WriteAcquire(t)
       \/ WriteField
       \/ WriteRelease
       \/ \E r \in Readers, k \in ReaderKinds : ReadAcquire(r, k)
       \/ \E r \in Readers : ReadField(r)
       \/ \E r \in Readers : ReadRelease(r)
    /\ UNCHANGED <<file, client, watcher, fails, edits, budget, req, disk>>
    /\ UNCHANGED <<conns, log, clock, chan, wt, rlog, inbox, outbox, link>>
    /\ UNCHANGED <<stats, tasks, served, proc, probe, trip>>

SpecLock == InitLock /\ [][NextLock]_vars

(***************************************************************************)
(* Load balancing: several HTTP connections served side by side.  Each     *)
(* request builds its own ProxyHandler (counter 0) in handle_request;      *)
(* forward then selects a backend and waits for its answer.                *)
(***************************************************************************)
MaxDispatches == 3

ClientIps == {"ip1", "ip2"}

PoolOf(servers, policy) == [servers |-> servers, load_balancing |-> policy]

\* one pool per policy and per shape of the server list, under one-letter
\* names; the route of pool n has the path /n
LbPools ==
    [r |-> PoolOf(<<Backend("A", FALSE), Backend("B", FALSE)>>, "RoundRobin"),
     i |-> PoolOf(<<Backend("A", FALSE), Backend("B", FALSE)>>, "IpHash"),
     l |-> PoolOf(<<Backend("A", FALSE), Backend("B", FALSE)>>, "LeastConnections"),
     d |-> PoolOf(<<Backend("A", FALSE), Backend("B", FALSE)>>, "Random"),
     k |-> PoolOf(<<Backend("X", TRUE), Backend("Y", TRUE)>>, "RoundRobin"),
     m |-> PoolOf(<<Backend("X", TRUE), Backend("B", FALSE), Backend("A", FALSE)>>,
                  "LeastConnections"),
     e |-> PoolOf(<<>>, "IpHash")]

LbRoute(n) == [path |-> <<"/", n>>, methods |-> <<>>, upstream |-> n]

LbCfg(names) ==
    Cfg(8080, TRUE, 9090, [n \in {names[k] : k \in 1..Len(names)} |-> LbPools[n]],
        [k \in 1..Len(names) |-> LbRoute(names[k])], <<>>)

LbConfigs == {LbCfg(<<"r", "l">>), LbCfg(<<"i", "d">>), LbCfg(<<"k", "m", "e">>)}

LbPaths == {<<"/", n>> : n \in {"r", "i", "l", "d", "k", "m", "e", "z"}}

\* requests in flight to backend b of pool n: dispatched and not yet answered
InFlight(n, b) ==
    Cardinality({c \in Conns : /\ conns[c].pc = "inflight"
                               /\ conns[c].route.upstream = n
                               /\ conns[c].backend = b})

\* a handle_request whose handlers share one counter per server: the new
\* handler starts from the number of selections made so far
LbAcceptSharedCounter(c, ip, path) ==
    /\ conns[c].pc = "idle"
    /\ LET r == RouteScan(config, "GET", path, 1)
       IN  conns' = [conns EXCEPT ![c] =
               IF r > 0
               THEN [IdleConn EXCEPT !.pc = "forward", !.ip = ip,
                                     !.counter = Len(log),
                                     !.route = config.routes[r],
                                     !.upstream = config.upstreams[config.routes[r].upstream]]
               ELSE IdleConn]
    /\ UNCHANGED log

\* handle_request of a connection from ip up to drop(config): the route
\* and its pool are cloned into a new ProxyHandler
LbAccept(c, ip, path) ==
    /\ conns[c].pc = "idle"
    /\ LET s == StaticScan(config.static_files, path, disk, 1)
           r == RouteScan(config, "GET", path, 1)
       IN  conns' = [conns EXCEPT ![c] =
               IF s > 0 THEN IdleConn
               ELSE IF r > 0
               THEN [IdleConn EXCEPT !.pc = "forward", !.ip = ip,
                                     !.route = config.routes[r],
                                     !.upstream = config.upstreams[config.routes[r].upstream]]
               ELSE IdleConn]
    /\ UNCHANGED log

\* forward, first line: select_backend on the handler's pool; Err ends the
\* request with the 502 of handle_request before anything is sent.  The
\* log entry carries the status of a request that ends here, 0 otherwise.
LbSelect(c) ==
    /\ conns[c].pc = "forward"
    /\ Len(log) < MaxDispatches
    /\ \E b \in select_backend(conns[c].upstream, conns[c].counter) :
          /\ conns' = [conns EXCEPT ![c] =
                 IF b = ""
                 THEN IdleConn
                 ELSE [@ EXCEPT !.pc = "inflight", !.backend = b,
                                !.counter = IF Primaries(conns[c].upstream) = <<>>
                                            THEN @ ELSE @ + 1]]
          /\ log' = Append(log, [ip |-> conns[c].ip,
                                 upstream |-> conns[c].route.upstream,
                                 backend |-> b,
                                 status |-> IF b = "" THEN 502 ELSE 0])

\* the backend answers, fails or times out, and the response goes out
LbComplete(c) ==
    /\ conns[c].pc = "inflight"
    /\ conns' = [conns EXCEPT ![c] = IdleConn]
    /\ UNCHANGED log

InitLB ==
    /\ Startup({TomlFile(to_toml(c)) : c \in LbConfigs})
    /\ budget = 0
    /\ req = IdleReq
    /\ disk = NoFs
    /\ LockFree
    /\ NoConns
    /\ WatchIdle
    /\ LinkIdle
    /\ NoTraffic
    /\ AllRunning
    /\ NoProbe
    /\ NoTrip
    /\ NoTasks

NextLB ==
    /\ UNCHANGED taskVars
    /\ \/ \E c \in Conns, ip \in ClientIps, p \in LbPaths : LbAccept(c, ip, p)
       \/ \E c \in Conns : LbSelect(c)
       \/ \E c \in Conns : LbComplete(c)
    /\ UNCHANGED <<config, file, client, watcher, fails, edits, budget, req, disk>>
    /\ UNCHANGED <<rw, wr, rd, stable, clock, chan, wt, rlog, inbox, outbox, link>>
    /\ UNCHANGED <<stats, tasks, served, proc, probe, trip>>

SpecLB == InitLB /\ [][NextLB]_vars

(***************************************************************************)
(* Specifications.  Spec: the configuration store with its writers.        *)
(* SpecReq: HTTP requests beside a bounded number of writes.               *)
(* SpecLock (above): read and write sections of the lock, field by field.  *)
(* SpecLB (above): backend selection for connections served side by side.  *)
(* SpecWatch: the file watcher with its clock and its channel.             *)
(* SpecConn: one management connection, frame by frame.                    *)
(***************************************************************************)
StartupFiles ==
    {TomlFile(to_toml(c)) : c \in {CandOk, CandDangling}}
        \cup {TomlFile(DocSparse), MissingFile}

Init ==
    /\ Startup(StartupFiles)
    /\ budget = -1
    /\ req = IdleReq
    /\ disk = NoFs
    /\ LockFree
    /\ NoConns
    /\ WatchIdle
    /\ LinkIdle
    /\ NoTraffic
    /\ AllRunning
    /\ NoProbe
    /\ NoTrip
    /\ NoTasks

Next ==
    /\ UNCHANGED taskVars
    /\ Control
    /\ UNCHANGED <<req, disk, rw, wr, rd, stable, conns, log>>
    /\ UNCHANGED <<clock, chan, wt, rlog, inbox, outbox, link>>
    /\ UNCHANGED <<stats, tasks, served, proc, probe, trip>>

Spec == Init /\ [][Next]_vars

ReqStartupFiles ==
    {TomlFile(to_toml(c)) : c \in {CandOverlap, CandDangling, CandStatics}}

InitReq ==
    /\ Startup(ReqStartupFiles)
    /\ budget = MaxWrites
    /\ req = IdleReq
    /\ disk \in [Roots -> FsKinds]
    /\ LockFree
    /\ NoConns
    /\ WatchIdle
    /\ LinkIdle
    /\ NoTraffic
    /\ AllRunning
    /\ NoProbe
    /\ NoTrip
    /\ NoTasks

NextReq ==
    /\ UNCHANGED taskVars
    /\ \/ Control /\ UNCHANGED <<req, disk, rw, wr, rd, stable, conns, log>>
       \/ Requests /\ UNCHANGED <<rw, wr, rd, stable, conns, log>>
    /\ UNCHANGED <<clock, chan, wt, rlog, inbox, outbox, link>>
    /\ UNCHANGED <<stats, tasks, served, proc, probe, trip>>

SpecReq == InitReq /\ [][NextReq]_vars

InitWatch ==
    /\ Startup({TomlFile(to_toml(CandOk))})
    /\ budget = 0
    /\ req = IdleReq
    /\ disk = NoFs
    /\ LockFree
    /\ NoConns
    /\ WatchIdle
    /\ LinkIdle
    /\ NoTraffic
    /\ AllRunning
    /\ NoProbe
    /\ NoTrip
    /\ NoTasks

NextWatch ==
    /\ UNCHANGED taskVars
    /\ \/ Tick
       \/ \E f \in WatchFiles : FileEvent(f)
       \/ WatcherRecv
       \/ WatcherWake
       \/ WatcherReloaded
    /\ UNCHANGED <<client, watcher, fails, budget, req, disk>>
    /\ UNCHANGED <<rw, wr, rd, stable, conns, log, inbox, outbox, link>>
    /\ UNCHANGED <<stats, tasks, served, proc, probe, trip>>

SpecWatch == InitWatch /\ [][NextWatch]_vars

(***************************************************************************)
(* One management connection with its frames: handle_connection reads the  *)
(* frames one after the other and answers each text frame before it reads  *)
(* the next.                                                               *)
(***************************************************************************)
MaxFrames == 3

\* the frames a peer sends: a text frame holding a command, a text frame
\* that is no command, Ping, Binary, Close
FrameKinds == {"text", "bad", "ping", "binary", "close"}

\* the peer sends a frame; text frames are numbered in the order sent
PeerSend(kind) ==
    /\ ~link.closing
    /\ link.frames < MaxFrames
    /\ LET t == kind \in {"text", "bad"}
           n == IF t THEN link.texts + 1 ELSE 0
       IN  /\ inbox' = Append(inbox, [kind |-> kind, seq |-> n])
           /\ link' = [link EXCEPT !.frames = @ + 1,
                                   !.texts = IF t THEN n ELSE @,
                                   !.bad = IF kind = "bad" THEN @ \cup {n} ELSE @,
                                   !.closing = kind = "close"]
    /\ UNCHANGED <<config, file, client, fails, outbox>>

\* GetStatus, GetStats, Shutdown: answered from the state, nothing changes
Inquiry(cmd) ==
    /\ client.pc = "idle"
    /\ client' = Answer(cmd, CASE cmd = "GetStatus" -> "Status"
                               [] cmd = "GetStats" -> "Stats"
                               [] cmd = "Shutdown" -> "ShuttingDown",
                        "", "none")
    /\ UNCHANGED <<config, file, watcher, fails, edits>>

\* handle_message on the command of a text frame
Command ==
    \/ \E cmd \in {"GetStatus", "GetStats", "Shutdown"} : Inquiry(cmd)
    \/ GetConfig
    \/ \E r \in RouteInputs : AddRoute(r)
    \/ \E p \in PathInputs : RemoveRoute(p)
    \/ \E n \in UpNames, p \in Pools : UpdateUpstream(n, p)
    \/ \E n \in UpNames : RemoveUpstream(n)
    \/ \E c \in Candidates : UpdateConfigSwap(c)
    \/ UpdateConfigSave
    \/ ReloadConfig

\* Ok(Message::Text) that parses: handle_message runs and its response is
\* sent before the next frame is read
ConnText ==
    /\ link.state = "open"
    /\ inbox # <<>>
    /\ Head(inbox).kind = "text"
    /\ Command
    /\ IF client'.pc = "idle"
       THEN /\ outbox' = Append(outbox, [seq |-> Head(inbox).seq, reply |-> client'.reply])
            /\ inbox' = Tail(inbox)
       ELSE UNCHANGED <<inbox, outbox>>
    /\ UNCHANGED link

\* a text frame that is no command: the loop ends without a response
ConnBadDrops ==
    /\ link.state = "open"
    /\ inbox # <<>>
    /\ Head(inbox).kind = "bad"
    /\ inbox' = Tail(inbox)
    /\ link' = [link EXCEPT !.state = "closed"]
    /\ UNCHANGED <<config, file, client, fails, outbox>>

\* Ok(Message::Text) that does not parse: an Error is sent and the loop
\* goes on
ConnBad ==
    /\ link.state = "open"
    /\ inbox # <<>>
    /\ Head(inbox).kind = "bad"
    /\ outbox' = Append(outbox, [seq |-> Head(inbox).seq, reply |-> "Error"])
    /\ inbox' = Tail(inbox)
    /\ UNCHANGED <<config, file, client, fails, link>>

\* Ping is answered with Pong, a Binary frame is ignored, Close ends the loop
ConnOther ==
    /\ link.state = "open"
    /\ inbox # <<>>
    /\ Head(inbox).kind \in {"ping", "binary", "close"}
    /\ inbox' = Tail(inbox)
    /\ outbox' = IF Head(inbox).kind = "ping"
                 THEN Append(outbox, [seq |-> 0, reply |-> "Pong"])
                 ELSE outbox
    /\ link' = IF Head(inbox).kind = "close"
               THEN [link EXCEPT !.state = "closed"]
               ELSE link
    /\ UNCHANGED <<config, file, client, fails>>

InitConn ==
    /\ Startup({TomlFile(to_toml(CandOk))})
    /\ budget = 0
    /\ req = IdleReq
    /\ disk = NoFs
    /\ LockFree
    /\ NoConns
    /\ WatchIdle
    /\ LinkIdle
    /\ NoTraffic
    /\ AllRunning
    /\ NoProbe
    /\ NoTrip
    /\ NoTasks

NextConn ==
    /\ UNCHANGED taskVars
    /\ \/ \E k \in FrameKinds : PeerSend(k)
       \/ ConnText
       \/ ConnBad
       \/ ConnOther
    /\ UNCHANGED <<watcher, edits, budget, req, disk>>
    /\ UNCHANGED <<rw, wr, rd, stable, conns, log, clock, chan, wt, rlog>>
    /\ UNCHANGED <<stats, tasks, served, proc, probe, trip>>

SpecConn == InitConn /\ [][NextConn]_vars

(***************************************************************************)
(* SpecRoutes: the four commands that change routes and pools one by one,  *)
(* from configurations in which a path is routed once or twice.            *)
(***************************************************************************)
RouteApiB == [path |-> PApi, methods |-> <<"post">>, upstream |-> "b"]
RouteHealth == [path |-> PHealth, methods |-> <<>>, upstream |-> "a"]
RouteLost == [path |-> PHealth, methods |-> <<>>, upstream |-> "z"]

\* the routes a client sends with AddRoute
RouteTrials == RouteInputs \cup {RouteApiB, RouteHealth, RouteLost}

PoolBA == [servers |-> <<Backend("B", FALSE), Backend("A", TRUE)>>,
           load_balancing |-> "Random"]

\* the pools a client sends with UpdateUpstream
PoolTrials == Pools \cup {PoolBA}

\* a file in which two routes have the same path
CandTwins ==
    Cfg(8080, TRUE, 9090, UpAB, <<RouteApi, RouteApiV, RouteApiB>>, <<StaticA>>)

InitRoutes ==
    /\ Startup({TomlFile(to_toml(c)) : c \in {CandOk, CandTwins}})
    /\ budget = 0
    /\ req = IdleReq
    /\ disk = NoFs
    /\ LockFree
    /\ NoConns
    /\ WatchIdle
    /\ LinkIdle
    /\ NoTraffic
    /\ AllRunning
    /\ NoProbe
    /\ NoTrip
    /\ NoTasks

NextRoutes ==
    /\ UNCHANGED taskVars
    /\ \/ \E r \in RouteTrials : AddRoute(r)
       \/ \E p \in PathInputs : RemoveRoute(p)
       \/ \E n \in UpNames, p \in PoolTrials : UpdateUpstream(n, p)
       \/ \E n \in UpNames : RemoveUpstream(n)
    /\ UNCHANGED <<budget, req, disk, rw, wr, rd, stable, conns, log>>
    /\ UNCHANGED <<clock, chan, wt, rlog, inbox, outbox, link>>
    /\ UNCHANGED <<stats, tasks, served, proc, probe, trip>>

SpecRoutes == InitRoutes /\ [][NextRoutes]_vars

(***************************************************************************)
(* SpecReload: the ReloadConfig command in the two steps of reload_config: *)
(* the file is read and checked with no lock held, then the write lock is  *)
(* taken and the configuration replaced.  The file may be rewritten and    *)
(* the watcher may reload between the two.                                 *)
(***************************************************************************)
\* reload_config up to state.config.write(): Err is the reply at once
ReloadConfigLoad ==
    /\ client.pc = "idle"
    /\ LET r == ReloadCheck(file)
       IN  client' = IF r.err # ""
                     THEN Answer("ReloadConfig", "Error", r.err, "none")
                     ELSE [Fresh("ReloadConfig", r.config) EXCEPT !.pc = "publish"]
    /\ UNCHANGED <<config, file, watcher, fails, edits>>

\* *config = new_config under the write lock, Ok(()), and the reply
ReloadConfigPublish ==
    /\ client.pc = "publish"
    /\ config' = client.new_config
    /\ client' = Answer("ReloadConfig", "Success",
                        "Configuration reloaded from file", "none")
    /\ UNCHANGED <<file, watcher, fails, edits>>

\* the file is rewritten or removed from outside
Rewrite(f) ==
    /\ edits < MaxEvents
    /\ f # file
    /\ file' = f
    /\ edits' = edits + 1
    /\ UNCHANGED <<config, client, watcher, fails>>

InitReload ==
    /\ Startup({TomlFile(to_toml(CandOk)), MissingFile})
    /\ budget = 0
    /\ req = IdleReq
    /\ disk = NoFs
    /\ LockFree
    /\ NoConns
    /\ WatchIdle
    /\ LinkIdle
    /\ NoTraffic
    /\ AllRunning
    /\ NoProbe
    /\ NoTrip
    /\ NoTasks

NextReload ==
    /\ UNCHANGED taskVars
    /\ \/ ReloadConfigLoad
       \/ ReloadConfigPublish
       \/ \E f \in EditedFiles : Rewrite(f)
       \/ WatcherReload
    /\ UNCHANGED <<budget, req, disk, rw, wr, rd, stable, conns, log>>
    /\ UNCHANGED <<clock, chan, wt, rlog, inbox, outbox, link>>
    /\ UNCHANGED <<stats, tasks, served, proc, probe, trip>>

SpecReload == InitReload /\ [][NextReload]_vars

(***************************************************************************)
(* SpecStats: the counters of AppState.stats.  handle_request counts the   *)
(* request when it starts and its status class on every path that returns  *)
(* a response; the control plane and the watcher run beside it.            *)
(***************************************************************************)
MaxRequests == 3

\* the statuses a response may have: 200 of a static file, 404 for no
\* route, 502 for a failed forward, and whatever the backend answers
ResponseStatuses == {101, 200, 302, 404, 502}

Bump(st, class) == [st EXCEPT !.status_codes[class] = @ + 1]

\* a count that leaves out the last branch
update_status_statsNoServerError(st, code) ==
    IF code >= 200 /\ code < 300 THEN Bump(st, "success")
    ELSE IF code >= 300 /\ code < 400 THEN Bump(st, "redirect")
    ELSE IF code >= 400 /\ code < 500 THEN Bump(st, "client_error")
    ELSE st

\* server.rs update_status_stats
update_status_stats(st, code) ==
    IF code >= 200 /\ code < 300 THEN Bump(st, "success")
    ELSE IF code >= 300 /\ code < 400 THEN Bump(st, "redirect")
    ELSE IF code >= 400 /\ code < 500 THEN Bump(st, "client_error")
    ELSE IF code >= 500 THEN Bump(st, "server_error")
    ELSE st

\* handle_request, first lines: stats.total_requests += 1 under the write
\* lock of the stats
StatsCount(c) ==
    /\ tasks[c] = "idle"
    /\ stats.total_requests < MaxRequests
    /\ stats' = [stats EXCEPT !.total_requests = @ + 1]
    /\ tasks' = [tasks EXCEPT ![c] = "handling"]
    /\ UNCHANGED served

\* handle_request reaches one of its returns with a response of the given
\* status: update_status_stats, then the response goes out
StatsAnswer(c, status) ==
    /\ tasks[c] = "handling"
    /\ stats' = update_status_stats(stats, status)
    /\ tasks' = [tasks EXCEPT ![c] = "idle"]
    /\ served' = Append(served, status)

\* the client goes away while the request waits (for a lock, the file
\* system or the backend): the future is dropped, nothing more is counted
StatsDrop(c) ==
    /\ tasks[c] = "handling"
    /\ tasks' = [tasks EXCEPT ![c] = "idle"]
    /\ served' = Append(served, 0)
    /\ UNCHANGED stats

InitStats ==
    /\ Startup({TomlFile(to_toml(CandOk))})
    /\ budget = MaxWrites
    /\ req = IdleReq
    /\ disk = NoFs
    /\ LockFree
    /\ NoConns
    /\ WatchIdle
    /\ LinkIdle
    /\ NoTraffic
    /\ AllRunning
    /\ NoProbe
    /\ NoTrip
    /\ NoTasks

NextStats ==
    /\ UNCHANGED taskVars
    /\ \/ (\E c \in Conns : StatsCount(c))
             /\ UNCHANGED <<config, file, client, watcher, fails, edits, budget>>
       \/ (\E c \in Conns, st \in ResponseStatuses : StatsAnswer(c, st))
             /\ UNCHANGED <<config, file, client, watcher, fails, edits, budget>>
       \/ (\E c \in Conns : StatsDrop(c))
             /\ UNCHANGED <<config, file, client, watcher, fails, edits, budget>>
       \/ Control /\ UNCHANGED statVars
       \/ Budgeted /\ Inquiry("GetStats") /\ UNCHANGED statVars
    /\ UNCHANGED <<req, disk, rw, wr, rd, stable, conns, log>>
    /\ UNCHANGED <<clock, chan, wt, rlog, inbox, outbox, link, proc, probe, trip>>

SpecStats == InitStats /\ [][NextStats]_vars

(***************************************************************************)
(* SpecStop: the end of main.  After ctrl_c (or the end of the HTTP server *)
(* task) main aborts the watcher and the management accept loop and        *)
(* returns; with main the tokio runtime goes, and every task still alive   *)
(* (the HTTP accept loop, the connection tasks with their requests) is     *)
(* dropped where it waits.                                                 *)
(***************************************************************************)
\* tokio::signal::ctrl_c() completes in the select of main
Signal ==
    /\ proc.runtime = "up"
    /\ ~proc.signal
    /\ proc.http = "running"
    /\ proc' = [proc EXCEPT !.signal = TRUE]
    /\ UNCHANGED lbVars

\* the other arm of the select: run_server has returned (accept failed)
HttpEnds ==
    /\ proc.http = "running"
    /\ ~proc.signal
    /\ proc' = [proc EXCEPT !.http = "ended"]
    /\ UNCHANGED lbVars

\* reload_handle.abort() and mgmt_handle.abort()
Cleanup ==
    /\ proc.signal \/ proc.http = "ended"
    /\ ~proc.cleanup
    /\ proc' = [proc EXCEPT !.cleanup = TRUE,
                            !.watcher = "cancelled",
                            !.mgmt = IF @ = "running" THEN "cancelled" ELSE @]
    /\ UNCHANGED lbVars

\* main returns Ok(()): the runtime is dropped, and with it the HTTP accept
\* loop and every connection task, whatever its request waits for
MainReturns ==
    /\ proc.cleanup
    /\ proc.runtime = "up"
    /\ proc' = [proc EXCEPT !.runtime = "down",
                            !.http = IF @ = "running" THEN "cancelled" ELSE @]
    /\ conns' = [c \in Conns |->
                    IF conns[c].pc = "idle" THEN conns[c]
                    ELSE [conns[c] EXCEPT !.pc = "dropped"]]
    /\ UNCHANGED log

InitStop ==
    /\ Startup({TomlFile(to_toml(LbCfg(<<"r", "l">>)))})
    /\ budget = 0
    /\ req = IdleReq
    /\ disk = NoFs
    /\ LockFree
    /\ NoConns
    /\ WatchIdle
    /\ LinkIdle
    /\ NoTraffic
    /\ AllRunning
    /\ NoProbe
    /\ NoTrip
    /\ NoTasks

NextStop ==
    /\ UNCHANGED taskVars
    /\ \/ /\ proc.http = "running"
          /\ \E c \in Conns, ip \in ClientIps, p \in LbPaths : LbAccept(c, ip, p)
          /\ UNCHANGED proc
       \/ /\ proc.runtime = "up"
          /\ \E c \in Conns : LbSelect(c)
          /\ UNCHANGED proc
       \/ /\ proc.runtime = "up"
          /\ \E c \in Conns : LbComplete(c)
          /\ UNCHANGED proc
       \/ Signal
       \/ HttpEnds
       \/ Cleanup
       \/ MainReturns
    /\ UNCHANGED <<config, file, client, watcher, fails, edits, budget, req, disk>>
    /\ UNCHANGED <<rw, wr, rd, stable, clock, chan, wt, rlog, inbox, outbox, link>>
    /\ UNCHANGED <<stats, tasks, served, probe, trip>>

SpecStop == InitStop /\ [][NextStop]_vars

(***************************************************************************)
(* SpecParse: deserialisation at the grain of single fields.  A document   *)
(* may leave out the [server] and [management] sections or fields of them, *)
(* and the optional fields of a backend, a route and a static rule; serde  *)
(* takes the default of the section (impl Default) or of the field         *)
(* (#[serde(default = ...)]).                                              *)
(***************************************************************************)
\* a string field the document leaves out
Absent == "omitted"

default_bind_address == "0.0.0.0"
default_management_address == "127.0.0.1"
default_true == TRUE
default_weight == 1
default_timeout == 60
default_index == "index.html"

StringOr(v, d) == IF v = Absent THEN d ELSE v
NumberOr(v, d) == IF v = Omitted THEN d ELSE v
BoolOr(v, d) == IF v = Absent THEN d ELSE v = "true"

\* what #[derive(Default)] would make of ServerConfig
ServerDefaultDerived ==
    [bind_address |-> "", port |-> 0, workers |-> 0, access_log |-> FALSE]

\* impl Default for ServerConfig
ServerDefault ==
    [bind_address |-> default_bind_address, port |-> default_port,
     workers |-> 0, access_log |-> TRUE]

\* impl Default for ManagementConfig
ManagementDefault ==
    [enabled |-> TRUE, address |-> default_management_address,
     port |-> default_management_port]

\* Deserialize for ServerConfig, and #[serde(default)] on JanusConfig.server
DeServer(sec) ==
    IF ~sec.present THEN ServerDefault
    ELSE [bind_address |-> StringOr(sec.bind_address, default_bind_address),
          port |-> NumberOr(sec.port, default_port),
          workers |-> NumberOr(sec.workers, 0),
          access_log |-> BoolOr(sec.access_log, default_true)]

\* Deserialize for ManagementConfig, and #[serde(default)] on
\* JanusConfig.management
DeManagement(sec) ==
    IF ~sec.present THEN ManagementDefault
    ELSE [enabled |-> BoolOr(sec.enabled, default_true),
          address |-> StringOr(sec.address, default_management_address),
          port |-> NumberOr(sec.port, default_management_port)]

\* Deserialize for BackendServer
DeBackend(b) ==
    [address |-> b.address,
     weight |-> NumberOr(b.weight, default_weight),
     backup |-> BoolOr(b.backup, FALSE)]

\* Deserialize for RouteConfig (methods, rewrite and headers left out)
DeRoute(r) ==
    [path |-> r.path, upstream |-> r.upstream,
     timeout |-> NumberOr(r.timeout, default_timeout)]

\* Deserialize for StaticFileConfig
DeStatic(st) ==
    [path |-> st.path, root |-> st.root,
     index |-> StringOr(st.index, default_index),
     directory_listing |-> BoolOr(st.directory_listing, FALSE)]

\* toml::from_str::<JanusConfig> on a document with one backend, one route
\* and one static rule
Deserialize(d) ==
    [server |-> DeServer(d.server),
     management |-> DeManagement(d.management),
     backend |-> DeBackend(d.backend),
     route |-> DeRoute(d.route),
     static |-> DeStatic(d.static)]

\* JanusConfig::default(): no upstream, route or static rule
JanusDefault == [server |-> ServerDefault, management |-> ManagementDefault]

ServerSections ==
    {[present |-> FALSE, bind_address |-> Absent, port |-> Omitted,
      workers |-> Omitted, access_log |-> Absent]}
        \cup [present : {TRUE}, bind_address : {Absent, "127.0.0.1"},
              port : {Omitted, 3000}, workers : {Omitted},
              access_log : {Absent, "false"}]

ManagementSections ==
    {[present |-> FALSE, enabled |-> Absent, address |-> Absent, port |-> Omitted]}
        \cup [present : {TRUE}, enabled : {Absent, "false"},
              address : {Absent, "10.0.0.1"}, port : {Omitted, 9000}]

\* the documents parsed: every choice of what is written and what is left out
SparseDocs ==
    [server : ServerSections,
     management : ManagementSections,
     backend : [address : {"A"}, weight : {Omitted, 2}, backup : {Absent}],
     route : [path : {PApi}, upstream : {"a"}, timeout : {Omitted, 30}],
     static : [path : {<<"/">>}, root : {"r1"}, index : {Absent, "home.html"},
               directory_listing : {Absent}]]

\* JanusConfig::from_toml(content) with the content of probe
ParseDoc ==
    /\ probe.op = "document"
    /\ probe' = [op |-> "parsed", doc |-> probe.doc, config |-> Deserialize(probe.doc)]

\* JanusConfig::default()
BuildDefault ==
    /\ probe.op = "default"
    /\ probe' = [op |-> "built", config |-> JanusDefault]

InitParse ==
    /\ Startup({TomlFile(to_toml(CandOk))})
    /\ budget = 0
    /\ req = IdleReq
    /\ disk = NoFs
    /\ LockFree
    /\ NoConns
    /\ WatchIdle
    /\ LinkIdle
    /\ NoTraffic
    /\ AllRunning
    /\ NoTrip
    /\ NoTasks
    /\ probe \in {[op |-> "document", doc |-> d] : d \in SparseDocs}
                    \cup {[op |-> "default"]}

NextParse ==
    /\ UNCHANGED taskVars
    /\ \/ ParseDoc
       \/ BuildDefault
    /\ UNCHANGED <<config, file, client, watcher, fails, edits, budget, req, disk>>
    /\ UNCHANGED <<rw, wr, rd, stable, conns, log, clock, chan, wt, rlog>>
    /\ UNCHANGED <<inbox, outbox, link, stats, tasks, served, proc, trip>>

SpecParse == InitParse /\ [][NextParse]_vars

(***************************************************************************)
(* SpecMatch: route matching and the outbound URL as functions of their    *)
(* arguments, over every short pattern and path.                           *)
(***************************************************************************)
MaxPattern == 4
MaxPath == 3

\* sequences over the set A of length n
RECURSIVE Words(_, _)
Words(A, n) ==
    IF n = 0 THEN {<<>>}
    ELSE {Append(w, a) : w \in Words(A, n - 1), a \in A}

\* route patterns: the characters "/", "a" and the wildcard
Patterns == UNION {Words({"/", "a", "*"}, n) : n \in 1..MaxPattern}

\* request paths: a slash, then any of those characters
Paths == {<<"/">> \o w : w \in UNION {Words({"/", "a", "*"}, n) : n \in 0..(MaxPath - 1)}}

MethodLists == {<<>>, <<"get">>, <<"post">>}

\* Option<String>: None, or Some of a string
None == [some |-> FALSE, value |-> <<>>]
Some(v) == [some |-> TRUE, value |-> v]

Rewrites ==
    {None, Some(<<>>), Some(<<"/">>), Some(<<"/", "b">>), Some(<<"/", "b", "/">>),
     Some(<<"/", "b", "/", "/">>)}

Queries == {None, Some(<<>>), Some(<<"q">>)}

\* a configuration whose first route has the pattern and the method list,
\* and whose second route takes every path and method
ProbeCfg(pattern, methods) ==
    Cfg(8080, TRUE, 9090, UpAB,
        <<[path |-> pattern, methods |-> methods, upstream |-> "a"],
          [path |-> <<"/", "*">>, methods |-> <<>>, upstream |-> "b"]>>, <<>>)

\* proxy.rs apply_rewrite
apply_rewrite(path, pattern, rewrite) ==
    LET prefix == TrimEndMatches(TrimEndMatches(pattern, <<"/", "*">>), <<"*">>)
        suffix == StripPrefixOr(path, prefix)
    IN  TrimEndMatches(rewrite, <<"/">>) \o suffix

\* forward: upstream_path and query, the part of upstream_url after the
\* backend address
upstream_url(path, pattern, rewrite, query) ==
    (IF rewrite.some THEN apply_rewrite(path, pattern, rewrite.value) ELSE path)
        \o (IF query.some THEN <<"?">> \o query.value ELSE <<>>)

\* the routes loop of handle_request on a request with the probe's path
\* and method
MatchRoute ==
    /\ probe.op = "request"
    /\ LET c == ProbeCfg(probe.pattern, probe.methods)
       IN  probe' = [probe EXCEPT
               !.op = "matched",
               !.hit = /\ matches_route(probe.path, probe.pattern)
                       /\ MethodAdmitted(c.routes[1], probe.method),
               !.picked = RouteScan(c, probe.method, probe.path, 1)]

\* forward builds the URL for a request that the probe's route matched
BuildUrl ==
    /\ probe.op = "forward"
    /\ probe' = [probe EXCEPT
           !.op = "sent",
           !.url = upstream_url(probe.path, probe.pattern, probe.rewrite, probe.query)]

InitMatch ==
    /\ Startup({TomlFile(to_toml(CandOk))})
    /\ budget = 0
    /\ req = IdleReq
    /\ disk = NoFs
    /\ LockFree
    /\ NoConns
    /\ WatchIdle
    /\ LinkIdle
    /\ NoTraffic
    /\ AllRunning
    /\ NoTrip
    /\ NoTasks
    /\ \/ probe \in [op : {"request"}, pattern : Patterns, methods : MethodLists,
                      path : Paths, method : Methods, hit : {FALSE}, picked : {0}]
       \/ /\ probe \in [op : {"forward"}, pattern : Patterns, path : Paths,
                         rewrite : Rewrites, query : Queries, url : {<<>>}]
          /\ Len(probe.pattern) < MaxPattern
          /\ matches_route(probe.path, probe.pattern)

NextMatch ==
    /\ UNCHANGED taskVars
    /\ \/ MatchRoute
       \/ BuildUrl
    /\ UNCHANGED <<config, file, client, watcher, fails, edits, budget, req, disk>>
    /\ UNCHANGED <<rw, wr, rd, stable, conns, log, clock, chan, wt, rlog>>
    /\ UNCHANGED <<inbox, outbox, link, stats, tasks, served, proc, trip>>

SpecMatch == InitMatch /\ [][NextMatch]_vars

(***************************************************************************)
(* SpecTrip: the backend round trip of forward with its timer.  Only       *)
(* client.request(..) runs inside tokio::time::timeout; it completes when  *)
(* the head of the response has arrived.  The body is collected after      *)
(* that, outside the timer.  Time is counted in seconds from the start of  *)
(* the timer.                                                              *)
(***************************************************************************)
MaxWait == 4

\* route.timeout, in seconds
Timeouts == {1, 2}

\* the statuses a backend answers with
BackendStatuses == {200, 500}

\* tokio::time::timeout(timeout, client.request(upstream_req)) is started
TripStart(c, t) ==
    /\ trip[c].pc = "idle"
    /\ trip' = [trip EXCEPT ![c] = [pc |-> "request", timeout |-> t,
                                    waited |-> 0, status |-> 0]]

\* a second passes for every round trip under way; a timer that is due
\* fires before more time passes
TripTick ==
    /\ \E c \in Conns : trip[c].pc \in {"request", "body"}
    /\ \A c \in Conns :
          /\ trip[c].pc \in {"request", "body"} => trip[c].waited < MaxWait
          /\ trip[c].pc = "request" => trip[c].waited < trip[c].timeout
    /\ trip' = [c \in Conns |->
                   IF trip[c].pc \in {"request", "body"}
                   THEN [trip[c] EXCEPT !.waited = @ + 1]
                   ELSE trip[c]]

\* Ok(Ok(response)): the head of the response arrived before the timer
\* fired; its status is kept and response.collect() begins
TripHead(c, status) ==
    /\ trip[c].pc = "request"
    /\ trip' = [trip EXCEPT ![c].pc = "body", ![c].status = status]

\* Ok(Err(e)): connecting or sending failed; 502
TripRefused(c) ==
    /\ trip[c].pc = "request"
    /\ trip' = [trip EXCEPT ![c].pc = "done", ![c].status = 502]

\* Err(_): the timer fired first; 504
TripTimeout(c) ==
    /\ trip[c].pc = "request"
    /\ trip[c].waited >= trip[c].timeout
    /\ trip' = [trip EXCEPT ![c].pc = "done", ![c].status = 504]

\* response.collect().await returns: the whole body is there and the
\* response goes out with the backend's status, or the body broke off and
\* the ? makes it the 502 of handle_request
TripBody(c, ok) ==
    /\ trip[c].pc = "body"
    /\ trip' = [trip EXCEPT ![c].pc = "done",
                            ![c].status = IF ok THEN @ ELSE 502]

\* the connection takes its next request
TripNext(c) ==
    /\ trip[c].pc = "done"
    /\ trip' = [trip EXCEPT ![c] = IdleTrip]

InitTrip ==
    /\ Startup({TomlFile(to_toml(CandOk))})
    /\ budget = 0
    /\ req = IdleReq
    /\ disk = NoFs
    /\ LockFree
    /\ NoConns
    /\ WatchIdle
    /\ LinkIdle
    /\ NoTraffic
    /\ AllRunning
    /\ NoProbe
    /\ NoTrip
    /\ NoTasks

NextTrip ==
    /\ UNCHANGED taskVars
    /\ \/ \E c \in Conns, t \in Timeouts : TripStart(c, t)
       \/ TripTick
       \/ \E c \in Conns, st \in BackendStatuses : TripHead(c, st)
       \/ \E c \in Conns : TripRefused(c)
       \/ \E c \in Conns : TripTimeout(c)
       \/ \E c \in Conns, ok \in BOOLEAN : TripBody(c, ok)
       \/ \E c \in Conns : TripNext(c)
    /\ UNCHANGED <<config, file, client, watcher, fails, edits, budget, req, disk>>
    /\ UNCHANGED <<rw, wr, rd, stable, conns, log, clock, chan, wt, rlog>>
    /\ UNCHANGED <<inbox, outbox, link, stats, tasks, served, proc, probe>>

SpecTrip == InitTrip /\ [][NextTrip]_vars

(***************************************************************************)
(* Claims about the configuration store and the management commands.       *)
(***************************************************************************)
Mutating == {"AddRoute", "RemoveRoute", "UpdateUpstream", "RemoveUpstream", "UpdateConfig"}

\* the step in which the connection's handler produced the reply client'.reply
Replied == client' # client /\ client'.pc = "idle"

\* the step in which UpdateConfig decided on its candidate client'.new_config
UpdateConfigDecided ==
    client.pc = "idle" /\ client' # client /\ client'.cmd = "UpdateConfig"

\* C1: at every moment every route of the published configuration names a
\* key of the published upstream map.
C1_RoutesNameUpstreams == ~DanglingRoute(config)

\* C2: every upstream pool of the published configuration has at least one
\* backend server.
C2_PoolsHaveBackends == ~EmptyPool(config)

\* C3: UpdateConfig accepts a candidate exactly when validate_config accepts
\* it, and a rejected candidate is answered Error with the configuration
\* left as it was.
C3_UpdateConfigValidatesLikeReload ==
    [][UpdateConfigDecided =>
          /\ (client'.pc = "save") <=> (validate_config(client'.new_config) = "")
          /\ (validate_config(client'.new_config) # "" =>
                 client'.reply = "Error" /\ config' = config)]_vars

\* C4: a valid candidate that UpdateConfig publishes is what GetConfig then
\* returns; an invalid candidate is answered Error with the validation
\* reason and GetConfig keeps returning the configuration published before.
C4_PublishReadRoundTrip ==
    [][/\ UpdateConfigDecided =>
             IF validate_config(client'.new_config) = ""
             THEN client'.pc = "save" /\ config' = client'.new_config
             ELSE /\ client'.reply = "Error"
                  /\ client'.msg = validate_config(client'.new_config)
                  /\ config' = config
       /\ (Replied /\ client'.cmd = "GetConfig") =>
             client'.reply = "Config" /\ client'.body = config]_vars

\* C5: a mutating command whose file write fails replies Error and leaves
\* the published configuration as it was before the command.
C5_FailedSaveLeavesConfig ==
    [][fails' > fails => (client'.reply = "Error" /\ config' = config)]_vars

\* C6: a mutating command that replies Success has written the file in that
\* command, and the file holds the configuration published at the reply.
C6_SuccessMeansSaved ==
    [][(Replied /\ client'.cmd \in Mutating /\ client'.reply = "Success") =>
          (client'.saved = "ok" /\ file' = TomlFile(to_toml(config')))]_vars

\* a Success for a change of the configuration, written to the file
C6_Witness ==
    /\ client.cmd = "AddRoute"
    /\ client.reply = "Success"
    /\ client.saved = "ok"
    /\ Len(config.routes) = 2
    /\ file = TomlFile(to_toml(config))

\* the fields a read section has read so far
FieldsRead(r) ==
    {ReadOrder(rd[r].kind)[k] : k \in 1..(rd[r].next - 1)}

\* C7: a reader never observes a torn configuration: whatever fields it has
\* read inside one read section belong to the one configuration that the
\* last write section left when the reader entered, and no write section
\* runs while it reads.
C7_NoTornRead ==
    \A r \in Readers :
        rd[r].pc = "reading" =>
            /\ ~rw.writer
            /\ rd[r].snap = stable
            /\ \A f \in FieldsRead(r) : rd[r].seen[f] = rd[r].snap[f]

\* a GetConfig that has read every field, after some write section changed
\* the configuration, next to a second reader
C7_Witness ==
    /\ rd["r1"].pc = "reading"
    /\ rd["r1"].kind = "GetConfig"
    /\ rd["r1"].next > Len(Fields)
    /\ rd["r2"].pc = "reading"
    /\ rd["r1"].seen = CandStatics

(***************************************************************************)
(* Claims about routing and dispatch.                                      *)
(***************************************************************************)
\* the step in which handle_request read the configuration for a request
Handled == req.pc \in {"idle", "done"} /\ req' # req

Addresses(servers) == {servers[k].address : k \in 1..Len(servers)}

\* least element of a non-empty set of numbers
Least(S) == CHOOSE k \in S : \A j \in S : k <= j

\* C8: the route and the pool of a request are read together from the
\* configuration published when the request is matched; no write that lands
\* later changes them, and the backend is selected from that pool.
C8_OneSnapshotPerRequest ==
    [][/\ (Handled /\ req'.pc = "forward") =>
             /\ \E i \in 1..Len(config.routes) : req'.route = config.routes[i]
             /\ ContainsKey(config.upstreams, req'.route.upstream)
             /\ req'.upstream = config.upstreams[req'.route.upstream]
       /\ (req.pc = "forward" /\ req'.pc = "forward") =>
             req'.route = req.route /\ req'.upstream = req.upstream
       /\ (req.pc = "forward" /\ req'.pc = "done") =>
             /\ req'.route = req.route
             /\ req'.upstream = req.upstream
             /\ Primaries(req.upstream) # <<>> =>
                   req'.backend \in Addresses(Primaries(req.upstream))]_vars

\* a request dispatched to a backend of its pool after a write replaced that
\* pool in the published configuration
C8_Witness ==
    /\ req.pc = "done"
    /\ req.outcome = "proxy"
    /\ req.backend \in Addresses(req.upstream.servers)
    /\ ContainsKey(config.upstreams, req.route.upstream)
    /\ config.upstreams[req.route.upstream] # req.upstream

\* C9: when no static rule matches the path, the route used for dispatch is
\* the first route in declaration order whose pattern matches the path and
\* whose method list admits the method.
C9_FirstMatchingRouteDispatches ==
    [][(Handled /\ \A k \in 1..Len(config.static_files) :
                      ~StartsWith(req'.path, config.static_files[k].path)) =>
          LET M == {i \in 1..Len(config.routes) :
                       /\ matches_route(req'.path, config.routes[i].path)
                       /\ MethodAdmitted(config.routes[i], req'.method)}
          IN  IF M = {} THEN req'.outcome = "notfound"
              ELSE req'.outcome = "proxy" /\ req'.route = config.routes[Least(M)]]_vars

DispatchesTo(n) == SelectSeq(log, LAMBDA e : e.upstream = n)

\* the connection whose forward selected (or failed to select) in this step
Selected(c) == conns[c].pc = "forward" /\ conns'[c].pc # "forward"

\* C11: the k-th selection on a RoundRobin pool with N primaries goes to
\* primary ((k-1) mod N) + 1: N selections visit every primary once and the
\* cycle repeats (A, B, A for primaries A, B).
C11_RoundRobinCycles ==
    \A n \in DOMAIN config.upstreams :
        LET pool == config.upstreams[n]
            P == Primaries(pool)
            D == DispatchesTo(n)
        IN  (pool.load_balancing = "RoundRobin" /\ P # <<>>) =>
                \A k \in 1..Len(D) : D[k].backend = P[((k - 1) % Len(P)) + 1].address

C13_LeastConnectionsPicksLeastLoaded ==
    [][\A c \in Conns :
          (/\ Selected(c)
           /\ conns[c].upstream.load_balancing = "LeastConnections"
           /\ Primaries(conns[c].upstream) # <<>>) =>
              LET n == conns[c].route.upstream
                  A == Addresses(Primaries(conns[c].upstream))
              IN  /\ conns'[c].backend \in A
                  /\ \A b \in A : InFlight(n, conns'[c].backend) <= InFlight(n, b)]_vars

\* C14: selection takes a non-backup server when the pool has one, else the
\* first backup in declared order, and with no server at all it fails: the
\* request ends with 502 and no backend is contacted.
C14_SelectionPrefersPrimaries ==
    [][\A c \in Conns :
          Selected(c) =>
              LET pool == conns[c].upstream
                  e == log'[Len(log')]
              IN  /\ Len(log') = Len(log) + 1
                  /\ e.upstream = conns[c].route.upstream
                  /\ IF \E k \in 1..Len(pool.servers) : ~pool.servers[k].backup
                     THEN /\ \E k \in 1..Len(pool.servers) :
                                ~pool.servers[k].backup /\ e.backend = pool.servers[k].address
                          /\ conns'[c].pc = "inflight" /\ conns'[c].backend = e.backend
                     ELSE IF pool.servers # <<>>
                     THEN /\ e.backend = pool.servers[1].address
                          /\ conns'[c].pc = "inflight" /\ conns'[c].backend = e.backend
                     ELSE /\ e.backend = "" /\ e.status = 502
                          /\ conns'[c].pc = "idle" /\ conns'[c].backend = ""]_vars

\* the three cases in one run: a pool of backups only, a pool that lists a
\* backup before its primaries, and a pool without servers
C14_Witness ==
    /\ Len(log) = 3
    /\ log[1].upstream = "k" /\ log[1].backend = "X"
    /\ log[2].upstream = "m" /\ log[2].backend = "B"
    /\ log[3].upstream = "e" /\ log[3].backend = "" /\ log[3].status = 502

(***************************************************************************)
(* Claims about the answers to failures.                                   *)
(***************************************************************************)
\* C15: a proxied request whose backend cannot be reached is answered 502,
\* one whose backend does not answer within the route's timeout is answered
\* 504, and in both cases the handler ends with a response.
C15_BackendFailuresAnswered ==
    [][\A net \in NetOutcomes :
          (Forward(net) /\ req'.backend # "") =>
              /\ req'.pc = "done"
              /\ net = "refused" => req'.status = 502
              /\ net = "timeout" => req'.status = 504]_vars

\* a request answered 504 after its backend was selected
C15_Witness ==
    /\ req.pc = "done"
    /\ req.outcome = "proxy"
    /\ req.backend # ""
    /\ req.status = 504

\* C16: a request that no static rule serves and no proxy route matches by
\* path and method is answered 404 at once, and no backend is contacted.
C16_NoMatchIs404 ==
    [][(/\ Handled
        /\ \A k \in 1..Len(config.static_files) :
              ~(/\ StartsWith(req'.path, config.static_files[k].path)
                /\ Serves(config.static_files[k], disk))
        /\ \A i \in 1..Len(config.routes) :
              \/ ~matches_route(req'.path, config.routes[i].path)
              \/ /\ config.routes[i].methods # <<>>
                 /\ \A k \in 1..Len(config.routes[i].methods) :
                       ToUpper(config.routes[i].methods[k]) # ToUpper(req'.method)) =>
          /\ req'.pc = "done"
          /\ req'.outcome = "notfound"
          /\ req'.status = 404
          /\ req'.backend = ""
          /\ req'.upstream = NoPool]_vars

\* a 404 for a path that a route matches, with a method the route does not
\* admit
C16_Witness ==
    /\ req.pc = "done"
    /\ req.status = 404
    /\ req.method = "POST"
    /\ \E i \in 1..Len(config.routes) : matches_route(req.path, config.routes[i].path)

(***************************************************************************)
(* Claims about the file watcher.                                          *)
(***************************************************************************)
\* C17: the events that started two reloads of the watcher never arrived
\* within one window of 500 ms (a burst inside one window starts at most
\* one reload), and the watcher decides on two reloads at least 500 ms apart.
C17_DebounceOneReloadPerWindow ==
    \A i \in 1..Len(rlog), j \in 1..Len(rlog) :
        i < j =>
            /\ rlog[j].arrived - rlog[i].arrived >= debounce_duration
            /\ rlog[j].decided - rlog[i].decided >= debounce_duration

\* C18: when the reload of the watcher fails (the file cannot be read, does
\* not parse or does not validate) the published configuration stays as it
\* was, and the watcher is back at its channel for the next event; it never
\* leaves its loop.
C18_FailedReloadKeepsConfig ==
    [][/\ (wt.pc = "reload" /\ wt'.pc # "reload" /\ ReloadCheck(file).err # "") =>
             /\ config' = config
             /\ wt'.pc = "recv"
             /\ rlog' = Append(rlog, [arrived |-> wt.cause,
                                      decided |-> wt.last_reload, ok |-> FALSE])
       /\ wt'.pc \in {"recv", "sleep", "reload"}]_vars

\* a failed reload of a file that parses but does not validate, and after
\* it a reload that published a new configuration
C18_Witness ==
    /\ Len(rlog) = 2
    /\ ~rlog[1].ok
    /\ rlog[2].ok
    /\ config = CandOverlap
    /\ wt.pc = "recv"

(***************************************************************************)
(* Claims about the management connection.                                 *)
(***************************************************************************)
\* the responses to text frames, in the order sent
Responses == SelectSeq(outbox, LAMBDA o : o.reply # "Pong")

\* the text frames still unread, the one being handled included
PendingTexts == SelectSeq(inbox, LAMBDA m : m.kind \in {"text", "bad"})

\* C19: every text frame gets exactly one response, in the order received:
\* the k-th response answers the k-th text frame, nothing read is left
\* without its response, a text frame that is no command is answered Error,
\* and the connection closes only when the peer closes it.
C19_OneResponsePerMessage ==
    /\ \A k \in 1..Len(Responses) : Responses[k].seq = k
    /\ \A k \in 1..Len(Responses) : k \in link.bad => Responses[k].reply = "Error"
    /\ link.state = "open" => Len(Responses) + Len(PendingTexts) = link.texts
    /\ link.state = "closed" => link.closing

\* a command answered after a malformed text frame was answered Error
C19_Witness ==
    /\ link.state = "open"
    /\ Len(Responses) = 3
    /\ 1 \in link.bad
    /\ Responses[1].reply = "Error"
    /\ Responses[2].reply = "Success"
    /\ Responses[3].reply = "Config"

(***************************************************************************)
(* Claims about single management commands.                                *)
(***************************************************************************)
\* C20: RemoveUpstream(n) while a route of the published configuration
\* names n is answered Error and changes neither the configuration nor the
\* file; a RemoveUpstream that changes the configuration removes just the
\* pool n, which no route names, and leaves routes and static rules alone.
C20_RemoveUpstreamInUseRefused ==
    [][\A n \in UpNames :
          RemoveUpstream(n) =>
              /\ (\E i \in 1..Len(config.routes) : config.routes[i].upstream = n) =>
                    /\ client'.reply = "Error"
                    /\ config' = config
                    /\ file' = file
              /\ config' # config =>
                    /\ \A i \in 1..Len(config.routes) : config.routes[i].upstream # n
                    /\ DOMAIN config'.upstreams = (DOMAIN config.upstreams) \ {n}
                    /\ \A k \in DOMAIN config'.upstreams :
                          config'.upstreams[k] = config.upstreams[k]
                    /\ config'.routes = config.routes
                    /\ config'.static_files = config.static_files]_vars

\* a refused removal of a pool that only the second route names
C20_Witness ==
    /\ client.cmd = "RemoveUpstream"
    /\ client.reply = "Error"
    /\ client.msg = "Upstream still in use"
    /\ Len(config.routes) = 2
    /\ config.routes[1].upstream = "a"
    /\ config.routes[2].upstream = "b"
    /\ ContainsKey(config.upstreams, "b")

\* the routes with another path than the given one, in their order
Others(routes, path) == SelectSeq(routes, LAMBDA r : r.path # path)

\* C21: AddRoute(r) is answered Error with the configuration unchanged when
\* r.upstream is no key of the upstream map or a route with r's path exists;
\* otherwise r becomes the last route, the routes before it keep their order
\* and content, and nothing else of the configuration changes.
C21_AddRouteGuardsAndAppends ==
    [][\A r \in RouteTrials :
          AddRoute(r) =>
              IF \/ r.upstream \notin DOMAIN config.upstreams
                 \/ \E i \in 1..Len(config.routes) : config.routes[i].path = r.path
              THEN client'.reply = "Error" /\ config' = config
              ELSE /\ Len(config'.routes) = Len(config.routes) + 1
                   /\ config'.routes[Len(config'.routes)] = r
                   /\ \A i \in 1..Len(config.routes) :
                         config'.routes[i] = config.routes[i]
                   /\ config'.upstreams = config.upstreams
                   /\ config'.static_files = config.static_files]_vars

\* a route refused for its path, which another route with other content
\* has, after a route was added behind two others
C21_Witness ==
    /\ client.cmd = "AddRoute"
    /\ client.reply = "Error"
    /\ client.msg = "Route already exists"
    /\ config.routes = <<RouteApi, RouteApiV, RouteHealth>>

\* C22: RemoveRoute(path) is answered Error with the configuration unchanged
\* when no route has the path; otherwise no route with the path remains and
\* the other routes are kept, in their order.
C22_RemoveRouteByPath ==
    [][\A p \in PathInputs :
          RemoveRoute(p) =>
              IF \A i \in 1..Len(config.routes) : config.routes[i].path # p
              THEN client'.reply = "Error" /\ config' = config
              ELSE /\ \A i \in 1..Len(config'.routes) : config'.routes[i].path # p
                   /\ config'.routes = Others(config.routes, p)
                   /\ config'.upstreams = config.upstreams
                   /\ config'.static_files = config.static_files]_vars

\* both routes of one path removed in one command, the route between them
\* kept
C22_Witness ==
    /\ client.cmd = "RemoveRoute"
    /\ client.reply = "Success"
    /\ config.routes = <<RouteApiV>>
    /\ config.upstreams = UpAB

\* C23: UpdateUpstream{name, config} leaves the upstream map with name
\* mapped to config, whether name was a key or not, and with every other
\* pool as it was; routes and static rules are unchanged.
C23_UpdateUpstreamUpserts ==
    [][\A n \in UpNames, p \in PoolTrials :
          UpdateUpstream(n, p) =>
              /\ DOMAIN config'.upstreams = (DOMAIN config.upstreams) \cup {n}
              /\ config'.upstreams[n] = p
              /\ \A k \in (DOMAIN config.upstreams) \ {n} :
                    config'.upstreams[k] = config.upstreams[k]
              /\ config'.routes = config.routes
              /\ config'.static_files = config.static_files
              /\ config'.server = config.server
              /\ config'.management = config.management]_vars

\* a pool that existed replaced by another one, the second pool and the
\* route left alone
C23_Witness ==
    /\ client.cmd = "UpdateUpstream"
    /\ client.reply = "Success"
    /\ config.upstreams["a"] = PoolBA
    /\ config.upstreams["b"] = PoolAB
    /\ config.routes = <<RouteApi>>

Counters(st) ==
    <<st.total_requests, st.bytes_received, st.bytes_sent,
      st.status_codes.success, st.status_codes.redirect,
      st.status_codes.client_error, st.status_codes.server_error>>

ClassSum(st) ==
    st.status_codes.success + st.status_codes.redirect
        + st.status_codes.client_error + st.status_codes.server_error

\* the class a status in 200..599 belongs to
ClassOf(code) ==
    CASE code \in 200..299 -> "success"
      [] code \in 300..399 -> "redirect"
      [] code \in 400..499 -> "client_error"
      [] code \in 500..599 -> "server_error"

\* the requests counted and not yet ended
Handling == Cardinality({c \in Conns : tasks[c] = "handling"})

\* C25: no step (request, reload, control-plane command) lowers a counter;
\* a request is counted once in total_requests, so that the total is the
\* number of requests ended or under way; the step that answers a request
\* with a status in 200..599 raises the counter of that status class by 1
\* and no other counter; and when no request is under way and all have been
\* answered with such a status, the class counters sum to total_requests.
C25_CountersOnlyGrow ==
    [][/\ \A k \in 1..7 : Counters(stats')[k] >= Counters(stats)[k]
       /\ stats'.total_requests = Len(served') + Handling'
       /\ \A c \in Conns :
             (tasks[c] = "handling" /\ tasks'[c] = "idle"
                 /\ served'[Len(served')] \in 200..599) =>
                 /\ stats'.total_requests = stats.total_requests
                 /\ stats'.status_codes =
                       [stats.status_codes EXCEPT
                           ![ClassOf(served'[Len(served')])] = @ + 1]
       /\ ClassSum(stats') = Len(SelectSeq(served', LAMBDA x : x \in 200..599))
       /\ (Handling' = 0 /\ \A k \in 1..Len(served') : served'[k] \in 200..599) =>
             ClassSum(stats') = stats'.total_requests]_vars

\* three requests answered, one per class, after a command changed the
\* configuration
C25_Witness ==
    /\ served = <<302, 502, 200>>
    /\ Handling = 0
    /\ stats.total_requests = 3
    /\ stats.status_codes = [success |-> 1, redirect |-> 1,
                             client_error |-> 0, server_error |-> 1]
    /\ client.reply = "Success"

(***************************************************************************)
(* Claims about shutdown.                                                  *)
(***************************************************************************)
\* C26: once the process has ended on the shutdown signal, the watcher, the
\* management accept loop and the HTTP accept loop are cancelled, and no
\* HTTP request that was being handled has been dropped without its
\* response.
C26_ShutdownLetsRequestsFinish ==
    (proc.signal /\ proc.runtime = "down") =>
        /\ proc.watcher = "cancelled"
        /\ proc.mgmt \in {"cancelled", "none"}
        /\ proc.http = "cancelled"
        /\ \A c \in Conns : conns[c].pc # "dropped"

(***************************************************************************)
(* Claims about single functions.                                          *)
(***************************************************************************)
\* C27: a configuration built from nothing, or parsed from a document that
\* leaves out sections or fields, has the documented default in every place
\* left out (bind 0.0.0.0, port 8080, management enabled at 127.0.0.1:9090,
\* weight 1, timeout 60, index index.html), and in every place the document
\* fills it has the value given there.
C27_OmittedFieldsTakeDefaults ==
    /\ probe.op = "built" =>
          /\ probe.config.server.bind_address = "0.0.0.0"
          /\ probe.config.server.port = 8080
          /\ probe.config.management.enabled
          /\ probe.config.management.address = "127.0.0.1"
          /\ probe.config.management.port = 9090
    /\ probe.op = "parsed" =>
          LET d == probe.doc
              c == probe.config
          IN  /\ c.server.bind_address =
                    IF d.server.present /\ d.server.bind_address # "omitted"
                    THEN d.server.bind_address ELSE "0.0.0.0"
              /\ c.server.port =
                    IF d.server.present /\ d.server.port # -1
                    THEN d.server.port ELSE 8080
              /\ c.management.enabled =
                    IF d.management.present /\ d.management.enabled # "omitted"
                    THEN d.management.enabled = "true" ELSE TRUE
              /\ c.management.address =
                    IF d.management.present /\ d.management.address # "omitted"
                    THEN d.management.address ELSE "127.0.0.1"
              /\ c.management.port =
                    IF d.management.present /\ d.management.port # -1
                    THEN d.management.port ELSE 9090
              /\ c.backend.weight = IF d.backend.weight # -1 THEN d.backend.weight ELSE 1
              /\ c.route.timeout = IF d.route.timeout # -1 THEN d.route.timeout ELSE 60
              /\ c.static.index =
                    IF d.static.index # "omitted" THEN d.static.index ELSE "index.html"

\* a document without [server], with a [management] section that gives the
\* port alone: the port is taken, everything else is the default
C27_Witness ==
    /\ probe.op = "parsed"
    /\ ~probe.doc.server.present
    /\ probe.doc.management.present
    /\ probe.doc.management.port = 9000
    /\ probe.doc.management.address = "omitted"
    /\ probe.doc.management.enabled = "omitted"
    /\ probe.config.server = [bind_address |-> "0.0.0.0", port |-> 8080,
                              workers |-> 0, access_log |-> TRUE]
    /\ probe.config.management = [enabled |-> TRUE, address |-> "127.0.0.1",
                                  port |-> 9000]
    /\ probe.doc.route.timeout = 30
    /\ probe.config.route.timeout = 30

\* the pattern with its trailing wildcard, "/*" or else "*", taken off once
LiteralPrefix(pattern) ==
    IF EndsWith(pattern, <<"/", "*">>) THEN SubSeq(pattern, 1, Len(pattern) - 2)
    ELSE IF EndsWith(pattern, <<"*">>) THEN SubSeq(pattern, 1, Len(pattern) - 1)
    ELSE pattern

\* C28: a route matches a request exactly when (a) the path equals the
\* pattern, for a pattern without trailing wildcard, or starts with the
\* pattern less its trailing "/*" or "*", and (b) the method list is empty
\* or holds the method, compared without regard to case; when the first
\* route does not match, the scan goes on and the next route is taken.
C28_RouteMatchRule ==
    probe.op = "matched" =>
        LET a == IF EndsWith(probe.pattern, <<"*">>)
                 THEN StartsWith(probe.path, LiteralPrefix(probe.pattern))
                 ELSE probe.path = probe.pattern
            b == \/ probe.methods = <<>>
                 \/ \E k \in 1..Len(probe.methods) :
                       ToUpper(probe.methods[k]) = ToUpper(probe.method)
        IN  /\ probe.hit = (a /\ b)
            /\ probe.picked = IF a /\ b THEN 1 ELSE 2

\* C29: with a rewrite the outbound path is the rewrite string less its
\* trailing slashes, followed by the request path less the pattern's
\* literal prefix (the pattern with its trailing "/*" or "*" removed);
\* without a rewrite it is the request path; the query string follows
\* unchanged in both cases.
C29_OutboundPath ==
    probe.op = "sent" =>
        LET lit == LiteralPrefix(probe.pattern)
            rest == IF StartsWith(probe.path, lit)
                    THEN SubSeq(probe.path, Len(lit) + 1, Len(probe.path))
                    ELSE probe.path
            out == IF probe.rewrite.some
                   THEN TrimEndMatches(probe.rewrite.value, <<"/">>) \o rest
                   ELSE probe.path
        IN  probe.url = out \o (IF probe.query.some
                                THEN <<"?">> \o probe.query.value ELSE <<>>)

(***************************************************************************)
(* Claims about the backend round trip.                                    *)
(***************************************************************************)
\* C30: the route's timeout bounds the whole round trip, the body of the
\* response included: at no moment is a proxied request, waiting or
\* answered, further from the start of its round trip than the timeout of
\* its route; a round trip that is not complete then is ended with 504.
C30_TimeoutBoundsRoundTrip ==
    \A c \in Conns :
        trip[c].pc # "idle" => trip[c].waited <= trip[c].timeout

(***************************************************************************)
(* Backend selection while the configuration is replaced: HTTP requests    *)
(* beside UpdateUpstream, ReloadConfig and an edit of the file.            *)
(***************************************************************************)
\* the RoundRobin pool of LbPools with a third primary
PoolGrown ==
    PoolOf(<<Backend("A", FALSE), Backend("B", FALSE), Backend("C", FALSE)>>,
           "RoundRobin")

\* the configuration of LbCfg(<<"r", "l">>) with pool r replaced by PoolGrown
CfgGrown ==
    [LbCfg(<<"r", "l">>) EXCEPT !.upstreams = MapInsert(@, "r", PoolGrown)]

InitCursor ==
    /\ Startup({TomlFile(to_toml(LbCfg(<<"r", "l">>)))})
    /\ NoTraffic
    /\ AllRunning
    /\ NoProbe
    /\ NoTrip
    /\ NoTasks
    /\ budget = MaxWrites + 1
    /\ req = IdleReq
    /\ disk = NoFs
    /\ LockFree
    /\ NoConns
    /\ WatchIdle
    /\ LinkIdle

NextCursor ==
    /\ UNCHANGED taskVars
    /\ UNCHANGED <<stats, tasks, served, proc, probe, trip>>
    /\ UNCHANGED <<req, disk, rw, wr, rd, stable, clock, chan, wt, rlog,
                   inbox, outbox, link>>
    /\ \/ /\ \/ \E c \in Conns, ip \in ClientIps : LbAccept(c, ip, <<"/", "r">>)
             \/ \E c \in Conns : LbSelect(c)
             \/ \E c \in Conns : LbComplete(c)
          /\ UNCHANGED <<config, file, client, watcher, fails, edits, budget>>
       \/ /\ \/ Budgeted /\ \E p \in {LbPools.r, PoolGrown} : UpdateUpstream("r", p)
             \/ Budgeted /\ ReloadConfig
             \/ EditFile(TomlFile(to_toml(CfgGrown))) /\ UNCHANGED budget
          /\ UNCHANGED <<conns, log>>

SpecCursor == InitCursor /\ [][NextCursor]_vars

(***************************************************************************)
(* Claims about the selection cursor.                                      *)
(***************************************************************************)
\* C31: the RoundRobin position of a pool is kept when the configuration is
\* replaced: a selection made by a handler built from the replaced pool r,
\* after k earlier selections on r, goes to primary (k mod N) + 1 of the
\* new server list, and not to the first primary again.
C31_CursorOutlivesReplacement ==
    [][\A c \in Conns :
          (/\ Selected(c)
           /\ conns[c].route.upstream = "r"
           /\ conns[c].upstream = PoolGrown)
          => LET P == Primaries(conns[c].upstream)
                 k == Len(DispatchesTo("r"))
             IN  conns'[c].backend = P[(k % Len(P)) + 1].address]_vars

(***************************************************************************)
(* The writers of the configuration side by side.  run_management_server   *)
(* spawns one task per connection and main spawns the watcher, so the      *)
(* handlers of two connections and a reload of the watcher interleave at   *)
(* every await: the acquisition of the RwLock.  A handler keeps its guard  *)
(* until it returns.                                                       *)
(***************************************************************************)
\* commands one task handles, one after the other
MaxCommands == 1

Clients == {"m1", "m2"}

\* the in-place writers: their arm starts with state.config.write().await
InPlace == {"AddRoute", "RemoveRoute", "UpdateUpstream", "RemoveUpstream"}

\* the writers that replace the whole configuration
Replacing == {"UpdateConfig", "ReloadConfig", "reload"}

\* the messages a client sends
TaskCommands ==
    {[IdleTask EXCEPT !.cmd = "AddRoute", !.route = RouteApiV],
     [IdleTask EXCEPT !.cmd = "RemoveRoute", !.path = PApi],
     [IdleTask EXCEPT !.cmd = "UpdateUpstream", !.name = "c", !.pool = PoolAB],
     [IdleTask EXCEPT !.cmd = "RemoveUpstream", !.name = "b"],
     [IdleTask EXCEPT !.cmd = "UpdateConfig", !.new_config = CandOverlap],
     [IdleTask EXCEPT !.cmd = "UpdateConfig", !.new_config = CandStatics],
     [IdleTask EXCEPT !.cmd = "UpdateConfig", !.new_config = CandDangling],
     [IdleTask EXCEPT !.cmd = "ReloadConfig"],
     [IdleTask EXCEPT !.cmd = "GetConfig"]}

\* the body of an in-place arm between the acquisition of the write lock
\* and the save: the error it returns ("" for none), the configuration it
\* leaves
ApplyCommand(m, c) ==
    CASE m.cmd = "AddRoute" ->
            IF ~ContainsKey(c.upstreams, m.route.upstream)
            THEN [err |-> "Upstream not found", config |-> c]
            ELSE IF \E i \in 1..Len(c.routes) : c.routes[i].path = m.route.path
            THEN [err |-> "Route already exists", config |-> c]
            ELSE [err |-> "", config |-> PushRoute(c, m.route)]
      [] m.cmd = "RemoveRoute" ->
            [err |-> IF Len(RetainRoutes(c, m.path).routes) = Len(c.routes)
                     THEN "Route not found" ELSE "",
             config |-> RetainRoutes(c, m.path)]
      [] m.cmd = "UpdateUpstream" ->
            [err |-> "", config |-> InsertUpstream(c, m.name, m.pool)]
      [] m.cmd = "RemoveUpstream" ->
            IF InUse(c, m.name)
            THEN [err |-> "Upstream still in use", config |-> c]
            ELSE IF ~ContainsKey(c.upstreams, m.name)
            THEN [err |-> "Upstream not found", config |-> c]
            ELSE [err |-> "", config |-> [c EXCEPT !.upstreams = MapRemove(@, m.name)]]

\* the handler returns: its guard is dropped and the reply goes out
Finish(t, kind) ==
    [mt[t] EXCEPT !.pc = "idle", !.held = "none", !.reply = kind, !.count = @ + 1]

\* drop of the guard that task t holds
Unlock(t) ==
    IF mt[t].held = "write" THEN [rw EXCEPT !.writer = FALSE]
    ELSE [rw EXCEPT !.readers = @ \ {t}]

\* handle_message is entered with a message (for the watcher: reload_config
\* is called after the settle delay)
TaskStart(t, m) ==
    /\ mt[t].pc = "idle"
    /\ mt[t].count < MaxCommands
    /\ mt' = [mt EXCEPT ![t] =
                 [m EXCEPT !.count = mt[t].count,
                           !.pc = CASE m.cmd \in InPlace -> "lock"
                                    [] m.cmd = "UpdateConfig" -> "validate"
                                    [] m.cmd = "GetConfig" -> "readlock"
                                    [] OTHER -> "load"]]
    /\ UNCHANGED <<config, file, fails, rw>>

\* reload_config: JanusConfig::load and validate_config, no lock held
TaskLoad(t) ==
    /\ mt[t].pc = "load"
    /\ LET r == ReloadCheck(file)
       IN  mt' = [mt EXCEPT ![t] =
                     IF r.err # "" THEN Finish(t, "Error")
                     ELSE [@ EXCEPT !.pc = "lock", !.cand = r.config]]
    /\ UNCHANGED <<config, file, fails, rw>>

\* validate_and_update_config: the checks on new_config, no lock held
TaskValidate(t) ==
    /\ mt[t].pc = "validate"
    /\ mt' = [mt EXCEPT ![t] =
                 IF update_config_check(mt[t].new_config) # ""
                 THEN Finish(t, "Error")
                 ELSE [@ EXCEPT !.pc = "lock", !.cand = mt[t].new_config]]
    /\ UNCHANGED <<config, file, fails, rw>>

\* state.config.write().await returns the guard
TaskWriteLock(t) ==
    /\ mt[t].pc = "lock"
    /\ ~rw.writer
    /\ rw.readers = {}
    /\ rw' = [rw EXCEPT !.writer = TRUE]
    /\ mt' = [mt EXCEPT ![t].held = "write",
                        ![t].pc = IF mt[t].cmd \in InPlace THEN "check" ELSE "swap"]
    /\ UNCHANGED <<config, file, fails>>

\* *config = new_config, and the function returns
TaskSwap(t) ==
    /\ mt[t].pc = "swap"
    /\ config' = mt[t].cand
    /\ rw' = Unlock(t)
    /\ mt' = [mt EXCEPT ![t] =
                 IF mt[t].cmd = "UpdateConfig"
                 THEN [@ EXCEPT !.pc = "readlock", !.held = "none"]
                 ELSE Finish(t, "Success")]
    /\ UNCHANGED <<file, fails>>

\* an in-place arm under its write guard: the checks and the change
TaskCheck(t) ==
    /\ mt[t].pc = "check"
    /\ LET a == ApplyCommand(mt[t], config)
       IN  /\ config' = a.config
           /\ IF a.err # ""
              THEN /\ mt' = [mt EXCEPT ![t] = Finish(t, "Error")]
                   /\ rw' = Unlock(t)
              ELSE /\ mt' = [mt EXCEPT ![t].pc = "save"]
                   /\ UNCHANGED rw
    /\ UNCHANGED <<file, fails>>

\* state.config.read().await returns the guard
TaskReadLock(t) ==
    /\ mt[t].pc = "readlock"
    /\ ~rw.writer
    /\ rw' = [rw EXCEPT !.readers = @ \cup {t}]
    /\ mt' = [mt EXCEPT ![t].held = "read",
                        ![t].pc = IF mt[t].cmd = "GetConfig" THEN "read" ELSE "save"]
    /\ UNCHANGED <<config, file, fails>>

\* ClientMessage::GetConfig: config.clone() under the read guard
TaskRead(t) ==
    /\ mt[t].pc = "read"
    /\ rw' = Unlock(t)
    /\ mt' = [mt EXCEPT ![t] = [Finish(t, "Config") EXCEPT !.cand = config]]
    /\ UNCHANGED <<config, file, fails>>

\* a save that writes the candidate of its own command instead of the
\* configuration it finds under its guard
TaskSaveOwnCandidate(t) ==
    /\ mt[t].pc = "save"
    /\ \E o \in SaveOutcomes(IF mt[t].cmd = "UpdateConfig" THEN mt[t].cand ELSE config,
                              file) :
          /\ file' = o.file
          /\ fails' = IF o.ok THEN fails ELSE fails + 1
          /\ mt' = [mt EXCEPT ![t] = Finish(t, IF o.ok THEN "Success" ELSE "Error")]
    /\ rw' = Unlock(t)
    /\ UNCHANGED config

\* config.save(&state.config_path) under the guard the arm holds, and the
\* reply that follows
TaskSave(t) ==
    /\ mt[t].pc = "save"
    /\ \E o \in SaveOutcomes(config, file) :
          /\ file' = o.file
          /\ fails' = IF o.ok THEN fails ELSE fails + 1
          /\ mt' = [mt EXCEPT ![t] = Finish(t, IF o.ok THEN "Success" ELSE "Error")]
    /\ rw' = Unlock(t)
    /\ UNCHANGED config

InitTasks ==
    /\ Startup({TomlFile(to_toml(CandOk))})
    /\ budget = 0
    /\ req = IdleReq
    /\ disk = NoFs
    /\ LockFree
    /\ NoConns
    /\ WatchIdle
    /\ LinkIdle
    /\ NoTraffic
    /\ AllRunning
    /\ NoProbe
    /\ NoTrip
    /\ NoTasks

NextTasks ==
    /\ \/ \E t \in Clients, m \in TaskCommands : TaskStart(t, m)
       \/ TaskStart("w", [IdleTask EXCEPT !.cmd = "reload"])
       \/ \E t \in Tasks : TaskLoad(t)
       \/ \E t \in Tasks : TaskValidate(t)
       \/ \E t \in Tasks : TaskWriteLock(t)
       \/ \E t \in Tasks : TaskSwap(t)
       \/ \E t \in Tasks : TaskCheck(t)
       \/ \E t \in Tasks : TaskReadLock(t)
       \/ \E t \in Tasks : TaskRead(t)
       \/ \E t \in Tasks : TaskSave(t)
    /\ UNCHANGED <<client, watcher, edits, budget, req, disk, wr, rd, stable>>
    /\ UNCHANGED <<conns, log, clock, chan, wt, rlog, inbox, outbox, link>>
    /\ UNCHANGED <<stats, tasks, served, proc, probe, trip, th, locks>>

SpecTasks == InitTasks /\ [][NextTasks]_vars

\* two clients that send UpdateConfig and nothing else, no watcher
NextUpdates ==
    /\ \/ \E t \in Clients, c \in {CandOverlap, CandStatics, CandDangling} :
             TaskStart(t, [IdleTask EXCEPT !.cmd = "UpdateConfig", !.new_config = c])
       \/ \E t \in Clients : TaskValidate(t)
       \/ \E t \in Clients : TaskWriteLock(t)
       \/ \E t \in Clients : TaskSwap(t)
       \/ \E t \in Clients : TaskReadLock(t)
       \/ \E t \in Clients : TaskSave(t)
    /\ UNCHANGED <<client, watcher, edits, budget, req, disk, wr, rd, stable>>
    /\ UNCHANGED <<conns, log, clock, chan, wt, rlog, inbox, outbox, link>>
    /\ UNCHANGED <<stats, tasks, served, proc, probe, trip, th, locks>>

SpecUpdates == InitTasks /\ [][NextUpdates]_vars

(***************************************************************************)
(* Claims about concurrent writers.                                        *)
(***************************************************************************)
\* C32: a writer holds the write section only for the replacement of the
\* published configuration: while a task holds the write guard it is at
\* the assignment, never at a validation check or at a file write.
C32_WriteSectionOnlySwaps ==
    \A t \in Tasks : mt[t].held = "write" => mt[t].pc = "swap"

(***************************************************************************)
(* Claims about the life of the watcher task.                              *)
(***************************************************************************)
\* C33: the watcher never ends on its own: whatever the configuration file
\* was at startup and whatever happened to the reloads since, watch_config
\* is in its loop (waiting for an event or reloading), never returned.
C33_WatcherNeverStops == watcher.pc # "stopped"

(***************************************************************************)
(* The watched directory.  The watcher is registered on the parent         *)
(* directory of the configuration file, and its callback looks at the kind *)
(* of an event only: every create or modify event of any entry of the      *)
(* directory puts () into the channel.                                     *)
(***************************************************************************)
\* another entry of the directory is created or modified (an editor's swap
\* file, a log file next to janus.toml), one such event waiting at a time
DirEvent ==
    /\ chan = <<>>
    /\ chan' = Append(chan, clock)
    /\ UNCHANGED <<config, file, edits, clock, wt, rlog>>

NextDir ==
    /\ UNCHANGED taskVars
    /\ \/ Tick
       \/ FileEvent(TomlFile(to_toml(CandOverlap)))
       \/ DirEvent
       \/ WatcherRecv
       \/ WatcherWake
       \/ WatcherReloaded
    /\ UNCHANGED <<client, watcher, fails, budget, req, disk>>
    /\ UNCHANGED <<rw, wr, rd, stable, conns, log, inbox, outbox, link>>
    /\ UNCHANGED <<stats, tasks, served, proc, probe, trip>>

SpecDir == InitWatch /\ [][NextDir]_vars

(***************************************************************************)
(* Claims about the events of the watched directory.                       *)
(***************************************************************************)
\* C34: events of other entries of the directory do nothing: as long as the
\* configuration file itself was not created or modified the watcher has
\* run no reload, is waiting at its channel, and its debounce window still
\* starts where it started (so that the first event of the configuration
\* file is judged against the start of the watcher, not against an event
\* of another entry).
C34_OtherEntriesIgnored ==
    edits = 0 => /\ rlog = <<>>
                 /\ wt = WatcherStart

(***************************************************************************)
(* Startup of the listeners.  main spawns the management server and the    *)
(* HTTP server as tasks; each binds its listener inside its task.  main    *)
(* waits for ctrl_c or for the end of the HTTP server task only.           *)
(***************************************************************************)
\* main after its tokio::spawn calls, before a listener is bound
Spawned ==
    proc = [signal |-> FALSE, cleanup |-> FALSE, runtime |-> "up",
            watcher |-> "running",
            mgmt |-> IF config.management.enabled THEN "starting" ELSE "none",
            http |-> "starting"]

\* run_server: TcpListener::bind(addr).await? ; an Err ends the task, which
\* completes server_handle in the select of main
BindHttp(ok) ==
    /\ proc.runtime = "up"
    /\ proc.http = "starting"
    /\ proc' = [proc EXCEPT !.http = IF ok THEN "running" ELSE "ended"]
    /\ UNCHANGED lbVars

\* run_management_server: TcpListener::bind(&addr).await? ; an Err ends the
\* task with "Management server error", and nothing waits for that task
BindMgmt(ok) ==
    /\ proc.runtime = "up"
    /\ proc.mgmt = "starting"
    /\ proc' = [proc EXCEPT !.mgmt = IF ok THEN "running" ELSE "failed"]
    /\ UNCHANGED lbVars

InitBoot ==
    /\ Startup({TomlFile(to_toml(LbCfg(<<"r", "l">>)))})
    /\ budget = 0
    /\ req = IdleReq
    /\ disk = NoFs
    /\ LockFree
    /\ NoConns
    /\ WatchIdle
    /\ LinkIdle
    /\ NoTraffic
    /\ Spawned
    /\ NoProbe
    /\ NoTrip
    /\ NoTasks

NextBoot ==
    /\ UNCHANGED taskVars
    /\ \/ \E ok \in BOOLEAN : BindHttp(ok)
       \/ \E ok \in BOOLEAN : BindMgmt(ok)
       \/ /\ proc.http = "running"
          /\ \E c \in Conns, ip \in ClientIps, p \in LbPaths : LbAccept(c, ip, p)
          /\ UNCHANGED proc
       \/ /\ proc.runtime = "up"
          /\ \E c \in Conns : LbSelect(c)
          /\ UNCHANGED proc
       \/ /\ proc.runtime = "up"
          /\ \E c \in Conns : LbComplete(c)
          /\ UNCHANGED proc
       \/ Signal
       \/ HttpEnds
       \/ Cleanup
       \/ MainReturns
    /\ UNCHANGED <<config, file, client, watcher, fails, edits, budget, req, disk>>
    /\ UNCHANGED <<rw, wr, rd, stable, clock, chan, wt, rlog, inbox, outbox, link>>
    /\ UNCHANGED <<stats, tasks, served, probe, trip>>

SpecBoot == InitBoot /\ [][NextBoot]_vars

(***************************************************************************)
(* Claims about fatal and non-fatal failures.                              *)
(***************************************************************************)
\* C35: a listener that cannot be bound aborts the startup, and nothing
\* else ends the process: after the bind of the management listener or of
\* the HTTP listener has failed the server accepts no HTTP connection (it
\* does not go on serving without the listener), and an HTTP server that
\* has bound its listener never ends on a failure of its own.
C35_OnlyBindFailuresAreFatal ==
    [][/\ (proc.mgmt = "failed" \/ proc.http = "ended") =>
              \A c \in Conns : ~(conns[c].pc = "idle" /\ conns'[c].pc # "idle")
       /\ ~(proc.http = "running" /\ proc'.http = "ended")]_vars

\* C36: a reload never publishes file content that was read before a
\* mutation that replied Success was saved: when no command and no reload
\* is under way and no save has failed, the published configuration is the
\* content of the configuration file (the clients send mutations, the only
\* reloads are those of the watcher).
C36_SuccessNotLostToReload ==
    (/\ \A t \in Tasks : mt[t].pc = "idle"
     /\ \A t \in Clients : mt[t].cmd # "ReloadConfig"
     /\ fails = 0) =>
        file = TomlFile(to_toml(config))

(***************************************************************************)
(* Claims about the progress of file-driven reloads.                       *)
(***************************************************************************)
\* C37: a change of the configuration file to valid content reaches the
\* published configuration.  The watcher that has taken every event from
\* its channel and waits for the next one will do nothing more until the
\* file changes again, so by then the configuration is the content of the
\* file: no change is left behind unpublished, however soon after the start
\* of the watcher or after the last reload its event arrived.
C37_FileChangeEventuallyPublished ==
    (/\ edits > 0
     /\ chan = <<>>
     /\ wt.pc = "recv"
     /\ ReloadCheck(file).err = "") =>
        config = load(file).config

(***************************************************************************)
(* The two locks of AppState.  Each task is the sequence of acquisitions   *)
(* and drops of its code path.  tokio's RwLock is fair: requests queue in  *)
(* the order of their arrival, and a request is granted only at the head   *)
(* of the queue, a read beside other reads, a write alone.                 *)
(***************************************************************************)
Acquire(l, m) == [op |-> "acquire", lock |-> l, mode |-> m]
Drop(l) == [op |-> "drop", lock |-> l, mode |-> "none"]

\* a GetStatus that takes the stats lock before the configuration
ProgramStatsFirst(kind) ==
    CASE kind = "static" ->
            <<Acquire("stats", "write"), Drop("stats"), Acquire("config", "read"),
              Acquire("stats", "write"), Drop("stats"), Drop("config")>>
      [] kind = "proxy" ->
            <<Acquire("stats", "write"), Drop("stats"), Acquire("config", "read"),
              Drop("config"), Acquire("stats", "write"), Drop("stats")>>
      [] kind = "GetStatus" ->
            <<Acquire("stats", "read"), Acquire("config", "read"),
              Drop("config"), Drop("stats")>>
      [] kind = "GetStats" -> <<Acquire("stats", "read"), Drop("stats")>>
      [] kind = "UpdateConfig" ->
            <<Acquire("config", "write"), Drop("config"),
              Acquire("config", "read"), Drop("config")>>
      [] kind = "write" -> <<Acquire("config", "write"), Drop("config")>>

\* the lock operations of a code path, in program order:
\*   static     handle_request answered from a static file or a listing:
\*              update_status_stats runs before the config guard is dropped
\*   proxy      handle_request that forwards or answers 404: drop(config)
\*              comes before update_status_stats
\*   GetStatus, GetStats, UpdateConfig   the arms of handle_message
\*   write      AddRoute and the other in-place arms, and reload_config
Program(kind) ==
    CASE kind = "static" ->
            <<Acquire("stats", "write"), Drop("stats"), Acquire("config", "read"),
              Acquire("stats", "write"), Drop("stats"), Drop("config")>>
      [] kind = "proxy" ->
            <<Acquire("stats", "write"), Drop("stats"), Acquire("config", "read"),
              Drop("config"), Acquire("stats", "write"), Drop("stats")>>
      [] kind = "GetStatus" ->
            <<Acquire("config", "read"), Acquire("stats", "read"),
              Drop("stats"), Drop("config")>>
      [] kind = "GetStats" -> <<Acquire("stats", "read"), Drop("stats")>>
      [] kind = "UpdateConfig" ->
            <<Acquire("config", "write"), Drop("config"),
              Acquire("config", "read"), Drop("config")>>
      [] kind = "write" -> <<Acquire("config", "write"), Drop("config")>>

\* the code paths of each task
KindsOf(t) ==
    CASE t \in {"h1", "h2"} -> {"static", "proxy"}
      [] t = "m" -> {"GetStatus", "GetStats", "UpdateConfig", "write"}
      [] t = "w" -> {"write"}

\* the position after the operation at pc: 0 after the last one
After(t) ==
    IF th[t].pc = Len(Program(th[t].kind))
    THEN [IdleThread EXCEPT !.kind = th[t].kind]
    ELSE [th[t] EXCEPT !.pc = @ + 1]

\* a request arrives, a message is read, an event passes the debounce
ThreadStart(t, kind) ==
    /\ th[t].pc = 0
    /\ th' = [th EXCEPT ![t] = [IdleThread EXCEPT !.pc = 1, !.kind = kind]]
    /\ UNCHANGED locks

\* .read() / .write() is called: the task joins the queue of the lock
ThreadRequest(t) ==
    /\ th[t].pc > 0
    /\ th[t].wait = ""
    /\ LET o == Program(th[t].kind)[th[t].pc]
       IN  /\ o.op = "acquire"
           /\ locks' = [locks EXCEPT ![o.lock].queue =
                           Append(@, [task |-> t, mode |-> o.mode])]
           /\ th' = [th EXCEPT ![t].wait = o.lock]

\* the .await returns the guard
ThreadGrant(t) ==
    /\ th[t].wait # ""
    /\ LET l == th[t].wait
           q == locks[l].queue
       IN  /\ Head(q).task = t
           /\ locks[l].writer = ""
           /\ Head(q).mode = "write" => locks[l].readers = {}
           /\ locks' = [locks EXCEPT ![l] =
                           [writer |-> IF Head(q).mode = "write" THEN t ELSE "",
                            readers |-> IF Head(q).mode = "read"
                                        THEN locks[l].readers \cup {t}
                                        ELSE locks[l].readers,
                            queue |-> Tail(q)]]
           /\ th' = [th EXCEPT ![t] =
                        [After(t) EXCEPT !.wait = "", !.holds = Append(th[t].holds, l)]]

\* a guard goes out of scope or is dropped
ThreadDrop(t) ==
    /\ th[t].pc > 0
    /\ th[t].wait = ""
    /\ LET o == Program(th[t].kind)[th[t].pc]
       IN  /\ o.op = "drop"
           /\ locks' = [locks EXCEPT ![o.lock].writer = IF @ = t THEN "" ELSE @,
                                     ![o.lock].readers = @ \ {t}]
           /\ th' = [th EXCEPT ![t] =
                        [After(t) EXCEPT !.holds =
                            SelectSeq(th[t].holds, LAMBDA h : h # o.lock)]]

\* the steps a task takes by itself once it was started
ThreadTurn(t) ==
    /\ \/ ThreadRequest(t)
       \/ ThreadGrant(t)
       \/ ThreadDrop(t)
    /\ UNCHANGED <<config, file, client, watcher, fails, edits, budget, req, disk>>
    /\ UNCHANGED <<rw, wr, rd, stable, conns, log, clock, chan, wt, rlog>>
    /\ UNCHANGED <<inbox, outbox, link, stats, tasks, served, proc, probe, trip, mt>>

NextOrder ==
    \/ /\ \E t \in Threads : \E k \in KindsOf(t) : ThreadStart(t, k)
       /\ UNCHANGED <<config, file, client, watcher, fails, edits, budget, req, disk>>
       /\ UNCHANGED <<rw, wr, rd, stable, conns, log, clock, chan, wt, rlog>>
       /\ UNCHANGED <<inbox, outbox, link, stats, tasks, served, proc, probe, trip, mt>>
    \/ \E t \in Threads : ThreadTurn(t)

\* the tokio scheduler runs every task that can run
SpecOrder ==
    /\ InitTasks
    /\ [][NextOrder]_vars
    /\ \A t \in Threads : WF_vars(ThreadTurn(t))

(***************************************************************************)
(* Claims about the locks.                                                 *)
(***************************************************************************)
\* C38: no task waits for ever for the config lock or the stats lock; a
\* task that holds both has taken config first; no task waits for config
\* while it holds stats.
C38_LocksNeverDeadlock ==
    /\ [](\A t \in Threads :
            /\ Len(th[t].holds) = 2 => th[t].holds = <<"config", "stats">>
            /\ th[t].wait = "config" =>
                  \A i \in 1..Len(th[t].holds) : th[t].holds[i] # "stats")
    /\ \A t \in Threads : (th[t].wait # "") ~> (th[t].wait = "")

\* a request answered from a static file holds config and stats while a
\* writer and another request wait behind it
C38_Witness ==
    \E t, u, v \in Threads :
        /\ th[t].holds = <<"config", "stats">>
        /\ th[u].wait = "stats"
        /\ th[v].wait = "config"

\* the replies of the two clients
Replies(kind) == Cardinality({t \in Clients : mt[t].reply = kind})

\* C39: two clients that each sent AddRoute for the same new path (its
\* upstream known), with no reload beside them, have got one Success and
\* one Error once both are answered, and the configuration then holds the
\* path once; and at no time does the configuration hold two routes with
\* the same path.
C39_ConcurrentAddRoute ==
    /\ (/\ \A t \in Clients : /\ mt[t].pc = "idle"
                              /\ mt[t].count = 1
                              /\ mt[t].cmd = "AddRoute"
                              /\ mt[t].route = RouteApiV
        /\ mt["w"] = IdleTask) =>
            /\ Replies("Success") = 1
            /\ Replies("Error") = 1
            /\ Len(SelectSeq(config.routes, LAMBDA r : r.path = PApiV)) = 1
    /\ \A i, j \in 1..Len(config.routes) :
          i < j => config.routes[i].path # config.routes[j].path

\* C40: two clients that each sent a valid UpdateConfig, with every file
\* write succeeding and no other writer: once both are answered the
\* published configuration and the content of the file are the same, and
\* they are the candidate of one of the two.
C40_ConcurrentUpdateConfig ==
    (/\ \A t \in Clients : /\ mt[t].pc = "idle"
                           /\ mt[t].count = 1
                           /\ mt[t].cmd = "UpdateConfig"
                           /\ validate_config(mt[t].new_config) = ""
     /\ mt["w"] = IdleTask
     /\ fails = 0) =>
        /\ file = TomlFile(to_toml(config))
        /\ \E t \in Clients : config = mt[t].new_config
        /\ \A t \in Clients : mt[t].reply = "Success"

\* both clients answered, their candidates different
C40_Witness ==
    /\ \A t \in Clients : /\ mt[t].pc = "idle"
                          /\ mt[t].count = 1
                          /\ mt[t].cmd = "UpdateConfig"
                          /\ mt[t].reply = "Success"
    /\ mt["m1"].new_config # mt["m2"].new_config
    /\ config = mt["m1"].new_config
    /\ file = TomlFile(to_toml(config))
    /\ fails = 0

=============================================================================
